---- MODULE Spec2Model ----
(***************************************************************************)
(* email-rss: the folder orchestrator (internal/processor), the dedup      *)
(* ledger (internal/db), the single IMAP session (internal/imap) and the   *)
(* two feed documents written by internal/rss, as one state machine.       *)
(*                                                                         *)
(* A timestamp (time.Time) is a wall-clock reading and a zone offset, both  *)
(* in ticks; the instant it names is wall - off.  The upstream mailboxes   *)
(* carry UTC timestamps one day apart (IMAP SINCE compares dates only).    *)
(* A message body (TextBody, HTMLBody) is one token that names the mailbox *)
(* and uid it was read from; the empty content is EmptyBody.               *)
(*                                                                         *)
(* Spec is the orchestrator; SpecLedger is the ledger API called directly; *)
(* SpecShutdown adds the shutdown signal of the processing loop; SpecServe *)
(* is a document file written by the generator while the HTTP handler      *)
(* reads it; SpecNormalize applies the content normalizer to one input.    *)
(***************************************************************************)
EXTENDS Integers, Sequences, FiniteSets, TLC

\* ---------------------------------------------------------------- bounds
MaxSweeps == 2
MaxFaults == 1
MaxResets == 1
MaxDisturbances == 1
MaxWorkersBound == 2

MaxWall == 2
MaxSignalSweep == 1

\* ------------------------------------------------------------- timestamps
\* time.Date(..., time.UTC) at wall-clock reading n.
UTC(n) == [wall |-> n, off |-> 0]

\* time.Time{}: the zero time.
ZeroTime == UTC(0)

\* The instant a timestamp names (what time.Equal and time.After compare).
Instant(t) == t.wall - t.off

\* The zone offsets of the timestamps handed to the ledger API.
Offsets == {-2, 0}

Times == [wall : 1..MaxWall, off : Offsets]

\* The driver binds a time.Time as the text of Time.String(),
\* "2006-01-02 15:04:05 -0700 MST": the wall-clock reading first, then the
\* sign and the digits of the zone offset.
FormatTime(t) ==
    [wall |-> t.wall,
     sign |-> IF t.off < 0 THEN "-" ELSE "+",
     hhmm |-> IF t.off < 0 THEN 0 - t.off ELSE t.off]

\* time.Parse of that text with the layout "2006-01-02 15:04:05 -0700 MST".
\* The timestamps carry an offset and no zone name, so the text ends in the
\* offset once more ("-0200 -0200"; "+0000 UTC" for UTC).  The MST field
\* accepts a signed number only when it is at most 23: the text of a time
\* with an offset of an hour or more does not parse, neither with this
\* layout nor with RFC3339, and the call fails.
ParseTime(x) ==
    IF x.hhmm * 100 > 23
    THEN [err |-> TRUE, date |-> ZeroTime]
    ELSE [err |-> FALSE,
          date |-> [wall |-> x.wall,
                    off |-> IF x.sign = "-" THEN 0 - x.hhmm ELSE x.hhmm]]

\* Byte order of two such texts (SQLite compares TEXT with memcmp): the
\* wall-clock digits decide, then '+' sorts before '-', then the offset
\* digits.
TextLess(a, b) ==
    \/ a.wall < b.wall
    \/ /\ a.wall = b.wall
       /\ \/ a.sign = "+" /\ b.sign = "-"
          \/ a.sign = b.sign /\ a.hhmm < b.hhmm

\* MAX() over a non-empty set of texts.
SqlMax(texts) == CHOOSE x \in texts : \A y \in texts : y = x \/ TextLess(y, x)

\* The configured folder map (folderPath -> feedName); feed names are
\* distinct, so documents are indexed by the folder.
Folders == {"A", "B"}

NoMailbox == "none"

\* The upstream mailboxes, in sequence-number order.  Both folders hold a
\* message with uid 1; folder A holds an older and a newer message, both
\* dated in UTC; the message of folder B carries a Date header in another
\* zone, which the envelope's time.Time keeps as a fixed offset.
Upstream ==
    [f \in Folders |->
        IF f = "A" THEN << [date |-> UTC(1), uid |-> 1], [date |-> UTC(2), uid |-> 2] >>
                   ELSE << [date |-> [wall |-> 2, off |-> -2], uid |-> 1] >>]

EmptyBody == [uid |-> 0, src |-> "empty"]
NoBody == [uid |-> 0, src |-> "notfetched"]

\* ------------------------------------------------------- pure: sequences
Range(s) == {s[i] : i \in 1..Len(s)}

UIDs(s) == {s[i].uid : i \in 1..Len(s)}

SetMax(S) == CHOOSE x \in S : \A y \in S : y <= x

\* The longest upstream mailbox: the most candidates one pass can have.
MaxMailbox == SetMax({Len(Upstream[f]) : f \in Folders})

RECURSIVE Pick(_, _, _)
\* The elements of mbox at the positions in seqs, ascending from position i.
Pick(mbox, seqs, i) ==
    IF i > Len(mbox) THEN << >>
    ELSE IF i \in seqs THEN << mbox[i] >> \o Pick(mbox, seqs, i + 1)
    ELSE Pick(mbox, seqs, i + 1)

\* ----------------------------------------------------------- pure: ledger
\* SELECT MAX(date) ... WHERE folder = ?: the greatest stored text, parsed
\* back; NULL gives the zero time; a text that does not parse gives the
\* zero time and an error.
GetLastProcessedDate(l, f) ==
    IF l[f] = {} THEN [err |-> FALSE, date |-> ZeroTime]
    ELSE ParseTime(SqlMax({FormatTime(r.date) : r \in l[f]}))

IsMessageProcessedNever(l, f, uid) == FALSE

\* SELECT COUNT(*) ... WHERE folder = ? AND uid = ?; count > 0.
IsMessageProcessed(l, f, uid) == \E r \in l[f] : r.uid = uid

\* INSERT OR REPLACE keyed by (folder, uid).
MarkMessageProcessed(l, f, uid, date) ==
    [l EXCEPT ![f] = {r \in @ : r.uid # uid} \cup {[date |-> date, uid |-> uid]}]

ClearFolderHistoryOfAll(l, f) == [g \in Folders |-> {}]

\* DELETE ... WHERE folder = ?.
ClearFolderHistory(l, f) == [l EXCEPT ![f] = {}]

\* ------------------------------------------------------ pure: IMAP session
Mailbox(sel) == IF sel = NoMailbox THEN << >> ELSE Upstream[sel]

\* SEARCH on the selected mailbox: every message when since is the zero
\* time, else the messages dated on or after since (SINCE compares the
\* calendar dates, whatever the zones).
Search(sel, since) ==
    {i \in 1..Len(Mailbox(sel)) :
        since = ZeroTime \/ Mailbox(sel)[i].date.wall >= since.wall}

\* FETCH of sequence numbers on the selected mailbox.
FetchEnvelopes(sel, seqs) == Pick(Mailbox(sel), seqs, 1)

\* What the FETCH loop of GetMessages can return, always with a nil error.
\* A command that goes through gives the messages at the numbers that
\* exist; when a number lies beyond the selected mailbox the server may
\* also refuse the command, and the loop ends with no message.  When the
\* command fails on the way (msgs.Next() gives nil, Collect fails, or a
\* message comes without envelope) the messages hit are left out.
FetchOutcomes(sel, seqs, failing) ==
    IF failing
    THEN {Pick(Mailbox(sel), S, 1) : S \in (SUBSET seqs) \ {seqs}}
    ELSE {FetchEnvelopes(sel, seqs)} \cup
         (IF \E i \in seqs : i > Len(Mailbox(sel)) THEN {<< >>} ELSE {})

\* UID FETCH on the selected mailbox: the message with that uid, if any.
HasUID(sel, uid) == \E i \in 1..Len(Mailbox(sel)) : Mailbox(sel)[i].uid = uid

ContentOf(sel, uid) == [uid |-> uid, src |-> sel]

\* ------------------------------------------------------ pure: orchestrator
CanAcquireOver(held, cap) == held <= cap

CanAcquireUnbuffered(held, cap) == held < cap - 1

\* semaphore <- struct{}{} on a channel of capacity cap with held tokens.
CanAcquire(held, cap) == held < cap

WaitGroupDoneEarly(pcs) == \E p \in pcs : p = "done"

\* wg.Wait() of processMessagesAsync returns when every worker has returned.
WaitGroupDone(pcs) == \A p \in pcs : p = "done"

FoldersDoneEarly(pcs) == \E p \in pcs : p \in {"done", "failed"}

\* wg.Wait() of ProcessFolders returns when every folder goroutine returned.
FoldersDone(pcs) == \A p \in pcs : p \in {"done", "failed"}

\* ProcessFolders logs a folder's error and always returns nil.
SweepResult(pcs) == "nil"

ContentOnErrorAbort == [next |-> "done", body |-> NoBody]

\* A failed GetMessageContent is replaced by the empty content and the
\* worker goes on to mark the message.
ContentOnError == [next |-> "mark", body |-> EmptyBody]

\* The limit the earlier processor passed to GetProcessedMessages.
FeedWindow == 50

RECURSIVE DateDescending(_)
\* ORDER BY date DESC: every order of the records in which the date text
\* never grows.  The query leaves the order of records with the same date
\* text open: any of them may come first.
DateDescending(recs) ==
    LET Latest == {x \in recs : \A y \in recs :
                      ~TextLess(FormatTime(x.date), FormatTime(y.date))}
    IN  IF recs = {} THEN {<< >>}
        ELSE UNION {{<< r >> \o rest : rest \in DateDescending(recs \ {r})} :
                       r \in Latest}

\* GetProcessedMessages: the results the call may give for a folder's
\* records (ORDER BY date DESC LIMIT ?).  A negative limit is no limit.
\* rows.Scan into ProcessedMessage.Date gets a time from the driver only
\* when the stored text parses and fails on the first row whose text does
\* not; the call then returns the error and no message.
LedgerWindow(recs, limit) ==
    LET Limit(rows) ==
            IF limit < 0 \/ limit >= Len(rows) THEN rows
            ELSE SubSeq(rows, 1, limit)
        Scanned(rows) ==
            IF \E i \in 1..Len(rows) : ParseTime(FormatTime(rows[i].date)).err
            THEN [err |-> TRUE, rows |-> << >>]
            ELSE [err |-> FALSE, rows |-> rows]
    IN  {Scanned(Limit(rows)) : rows \in DateDescending(recs)}

\* processFolder hands the messages new in this pass to the generators.
FeedMessages(newMsgs, recs) == newMsgs

\* GenerateFeed adds one item per message, in the order of the slice.
RSSItems(msgs) == msgs

\* GenerateJSONFeed appends one item per message, in the order of the slice.
JSONItems(msgs) == msgs

\* os.WriteFile opens the path with O_TRUNC: until the bytes are written
\* the file is empty.
Truncated(created) == [created |-> created, state |-> "partial", items |-> << >>]

\* main: a returned error ends in log.Fatalf (exit status 1), nil in a
\* normal return (exit status 0).
ExitCode(ret) == IF ret = "nil" THEN 0 ELSE 1

\* ------------------------------------------------------------------ state
VARIABLES
    maxWorkers,   \* Processor.maxWorkers
    sweepPc,      \* "idle" | "running": ProcessFolders in flight
    sweeps,       \* number of ProcessFolders calls started
    retVal,       \* what the last ProcessFolders call returned
    faults,       \* injected failures so far
    resets,       \* ResetFolder calls so far
    selected,     \* mailbox selected on the IMAP session
    ledger,       \* processed_messages, per folder
    fpc,          \* per folder: position of its goroutine in processFolder
    since,        \* per folder: lastProcessed
    seqs,         \* per folder: data.AllSeqNums()
    messages,     \* per folder: the candidates returned by GetMessages
    wpc,          \* per folder, per candidate: position of its worker
    wbody,        \* per folder, per candidate: content held by the worker
    resultChan,   \* per folder: buffered results
    errorChan,    \* per folder: number of buffered errors
    closed,       \* per folder: both channels closed
    newMessages,  \* per folder: results collected so far
    rssSt,        \* per folder: GenerateFeed goroutine
    jsonSt,       \* per folder: GenerateJSONFeed goroutine
    xmlDoc,       \* per folder: the .xml file
    jsonDoc,      \* per folder: the .json file
    hist,         \* observations about the run, read by the properties only
    signalled,    \* a SIGINT/SIGTERM is buffered in sigChan
    writing,      \* per folder and kind: the bytes an open os.WriteFile holds
    served,       \* the last response of handleFeed
    removeCSSOn,  \* Generator.config.RemoveCSS
    content,      \* the string handed to the normalizer
    result,       \* what the normalizer returned for it
    textBody,     \* EmailMessage.TextBody of the message being rendered
    item,         \* the JSON item built from content (as HTMLBody) and textBody
    configured,   \* processing.max_workers as written in the configuration file
    cfgWorkers,   \* config.Processing.MaxWorkers
    cfgPc,        \* "none" | "loaded" | "new" | "set": start-up position
    urlPath,      \* r.URL.Path of the request handed to handleFeed
    reply,        \* what handleFeed answered to it
    lastErr       \* the last call of the ledger API returned an error

passVars == << fpc, since, seqs, messages, wpc, wbody, resultChan, errorChan,
               closed, newMessages, rssSt, jsonSt >>
docVars == << xmlDoc, jsonDoc >>
ctlVars == << maxWorkers, sweepPc, sweeps, retVal, resets >>
serveVars == << writing, served >>
normVars == << removeCSSOn, content, result >>
itemVars == << textBody, item >>
cfgVars == << configured, cfgWorkers, cfgPc >>
pathVars == << urlPath, reply >>
argVars == << itemVars, cfgVars, pathVars, lastErr >>
sideVars == << signalled, serveVars, normVars, argVars >>
vars == << ctlVars, faults, selected, ledger, passVars, docVars, hist, sideVars >>

NoDoc == [created |-> 0, state |-> "absent", items |-> << >>]

\* The two documents of a feed: <feedName>.xml and <feedName>.json.
Kinds == {"xml", "json"}

NoResponse == [body |-> NoDoc, status |-> 0]

NoResult == [fn |-> "none", ok |-> TRUE, out |-> << >>]

NoItem == [ok |-> TRUE, built |-> FALSE, html |-> << >>, text |-> << >>,
           summary |-> << >>]

NoReply == [status |-> 0, file |-> << >>]

Running == {"watermark", "select", "search", "fetch", "workers", "gen"}
Terminal == {"done", "failed"}
Holding == {"check", "fetch", "mark", "send"}

FoldersHeld == Cardinality({f \in Folders : fpc[f] \in Running})
WorkersHeld(f) == Cardinality({i \in 1..Len(wpc[f]) : wpc[f][i] \in Holding})

InitHist ==
    [fed |-> [f \in Folders |-> {}],
     prevXml |-> [f \in Folders |-> NoDoc],
     prevJson |-> [f \in Folders |-> NoDoc],
     prevLedger |-> [f \in Folders |-> {}],
     markFailed |-> [f \in Folders |-> {}],
     markFailedPrev |-> [f \in Folders |-> {}],
     fetchFailed |-> [f \in Folders |-> {}],
     absent |-> [f \in Folders |-> {}],
     marked |-> [f \in Folders |-> {}],
     genFailed |-> [f \in Folders |-> {}],
     genFailedPrev |-> [f \in Folders |-> {}],
     ownErr |-> [f \in Folders |-> FALSE],
     raced |-> FALSE,
     faultSweep |-> 0,
     resetSweep |-> -1,
     resetOf |-> "none"]

\* A started process before its first sweep: no call in flight, no mailbox
\* selected, no document written by it.
InitSession ==
    /\ sweepPc = "idle"
    /\ sweeps = 0
    /\ retVal = "none"
    /\ faults = 0
    /\ resets = 0
    /\ selected = NoMailbox
    /\ fpc = [f \in Folders |-> "idle"]
    /\ since = [f \in Folders |-> ZeroTime]
    /\ seqs = [f \in Folders |-> {}]
    /\ messages = [f \in Folders |-> << >>]
    /\ wpc = [f \in Folders |-> << >>]
    /\ wbody = [f \in Folders |-> << >>]
    /\ resultChan = [f \in Folders |-> << >>]
    /\ errorChan = [f \in Folders |-> 0]
    /\ closed = [f \in Folders |-> FALSE]
    /\ newMessages = [f \in Folders |-> << >>]
    /\ rssSt = [f \in Folders |-> "idle"]
    /\ jsonSt = [f \in Folders |-> "idle"]
    /\ xmlDoc = [f \in Folders |-> NoDoc]
    /\ jsonDoc = [f \in Folders |-> NoDoc]
    /\ hist = InitHist
    /\ signalled = FALSE
    /\ writing = [f \in Folders |-> [k \in Kinds |-> NoDoc]]
    /\ served = NoResponse

\* The processor and its collaborators before the first sweep, the worker
\* limit left open.
InitRun ==
    /\ ledger = [f \in Folders |-> {}]
    /\ InitSession

InitProcessor ==
    /\ maxWorkers \in 1..MaxWorkersBound
    /\ InitRun

\* No message is being rendered.
InitItemVars ==
    /\ textBody = << >>
    /\ item = NoItem

\* The start-up sequence is not followed.
InitCfgVars ==
    /\ configured = 0
    /\ cfgWorkers = 0
    /\ cfgPc = "none"

\* No request has been made.
InitPathVars ==
    /\ urlPath = << >>
    /\ reply = NoReply

Init ==
    /\ InitProcessor
    /\ removeCSSOn = FALSE
    /\ content = << >>
    /\ result = NoResult
    /\ InitItemVars
    /\ InitCfgVars
    /\ InitPathVars
    /\ lastErr = FALSE

\* A call may fail while the budgets of failures and of disturbances
\* (failures and resets together) last.
MayFail == faults < MaxFaults /\ faults + resets < MaxDisturbances

Fault ==
    /\ MayFail
    /\ faults' = faults + 1

NoFault == faults' = faults

\* The session command of folder f ran while another mailbox (or none) was
\* the selected one.
Raced(f) == hist.raced \/ selected # f

\* ------------------------------------------------------------ ProcessFolders
\* ProcessFolders: one goroutine per entry of the folder map.  The
\* processing loop makes the first call at once and a later one on a tick;
\* with a signal buffered as well the select may still take the tick.
StartSweep ==
    /\ sweepPc = "idle"
    /\ sweeps < MaxSweeps
    /\ sweepPc' = "running"
    /\ sweeps' = sweeps + 1
    /\ retVal' = "none"
    /\ fpc' = [f \in Folders |-> "spawned"]
    /\ since' = [f \in Folders |-> ZeroTime]
    /\ seqs' = [f \in Folders |-> {}]
    /\ messages' = [f \in Folders |-> << >>]
    /\ wpc' = [f \in Folders |-> << >>]
    /\ wbody' = [f \in Folders |-> << >>]
    /\ resultChan' = [f \in Folders |-> << >>]
    /\ errorChan' = [f \in Folders |-> 0]
    /\ closed' = [f \in Folders |-> FALSE]
    /\ newMessages' = [f \in Folders |-> << >>]
    /\ rssSt' = [f \in Folders |-> "idle"]
    /\ jsonSt' = [f \in Folders |-> "idle"]
    /\ hist' = [hist EXCEPT !.prevXml = xmlDoc, !.prevJson = jsonDoc,
                            !.prevLedger = ledger,
                            !.markFailedPrev = hist.markFailed,
                            !.markFailed = [f \in Folders |-> {}],
                            !.fetchFailed = [f \in Folders |-> {}],
                            !.absent = [f \in Folders |-> {}],
                            !.marked = [f \in Folders |-> {}],
                            !.genFailedPrev = hist.genFailed,
                            !.genFailed = [f \in Folders |-> {}],
                            !.ownErr = [f \in Folders |-> FALSE]]
    /\ UNCHANGED << sideVars, maxWorkers, resets, faults, selected, ledger, docVars >>

\* The folder goroutine acquires the folder semaphore.
FolderAcquire(f) ==
    /\ fpc[f] = "spawned"
    /\ CanAcquire(FoldersHeld, maxWorkers)
    /\ fpc' = [fpc EXCEPT ![f] = "watermark"]
    /\ UNCHANGED << sideVars, ctlVars, faults, selected, ledger, since, seqs, messages,
                    wpc, wbody, resultChan, errorChan, closed, newMessages,
                    rssSt, jsonSt, docVars, hist >>

\* processFolder: GetLastProcessedDate; an error ends the pass.
GetWatermark(f) ==
    /\ fpc[f] = "watermark"
    /\ \/ /\ NoFault
          /\ ~GetLastProcessedDate(ledger, f).err
          /\ since' = [since EXCEPT ![f] = GetLastProcessedDate(ledger, f).date]
          /\ fpc' = [fpc EXCEPT ![f] = "select"]
          /\ hist' = hist
       \/ /\ NoFault
          /\ GetLastProcessedDate(ledger, f).err
          /\ since' = since
          /\ fpc' = [fpc EXCEPT ![f] = "failed"]
          /\ hist' = [hist EXCEPT !.ownErr[f] = TRUE]
       \/ /\ Fault
          /\ since' = since
          /\ fpc' = [fpc EXCEPT ![f] = "failed"]
          /\ hist' = [hist EXCEPT !.ownErr[f] = TRUE, !.faultSweep = sweeps]
    /\ UNCHANGED << sideVars, ctlVars, selected, ledger, seqs, messages, wpc, wbody,
                    resultChan, errorChan, closed, newMessages, rssSt, jsonSt,
                    docVars >>

\* GetMessages: SELECT folder.  A failed SELECT leaves no mailbox selected.
SelectFolder(f) ==
    /\ fpc[f] = "select"
    /\ \/ /\ NoFault
          /\ selected' = f
          /\ fpc' = [fpc EXCEPT ![f] = "search"]
          /\ hist' = hist
       \/ /\ Fault
          /\ selected' = NoMailbox
          /\ fpc' = [fpc EXCEPT ![f] = "failed"]
          /\ hist' = [hist EXCEPT !.ownErr[f] = TRUE, !.faultSweep = sweeps]
    /\ UNCHANGED << sideVars, ctlVars, ledger, since, seqs, messages, wpc, wbody,
                    resultChan, errorChan, closed, newMessages, rssSt, jsonSt,
                    docVars >>

\* GetMessages: SEARCH on whatever mailbox the session has selected now.
\* No match returns (nil, nil): the pass goes on with no candidate.  With
\* no mailbox selected (the SELECT of another folder failed since this
\* folder's own SELECT) the command is refused and the pass ends.
SearchMessages(f) ==
    /\ fpc[f] = "search"
    /\ \/ /\ selected # NoMailbox
          /\ NoFault
          /\ seqs' = [seqs EXCEPT ![f] = Search(selected, since[f])]
          /\ fpc' = [fpc EXCEPT ![f] =
                        IF Search(selected, since[f]) = {} THEN "workers" ELSE "fetch"]
          /\ hist' = [hist EXCEPT !.raced = Raced(f)]
       \/ /\ selected = NoMailbox
          /\ NoFault
          /\ seqs' = seqs
          /\ fpc' = [fpc EXCEPT ![f] = "failed"]
          /\ hist' = [hist EXCEPT !.raced = TRUE]
       \/ /\ Fault
          /\ seqs' = seqs
          /\ fpc' = [fpc EXCEPT ![f] = "failed"]
          /\ hist' = [hist EXCEPT !.ownErr[f] = TRUE, !.faultSweep = sweeps]
    /\ UNCHANGED << sideVars, ctlVars, selected, ledger, since, messages, wpc, wbody,
                    resultChan, errorChan, closed, newMessages, rssSt, jsonSt,
                    docVars >>

\* GetMessages: FETCH the envelopes of the found sequence numbers from the
\* mailbox selected now; processMessagesAsync then starts one worker per
\* candidate.
FetchMessages(f) ==
    /\ fpc[f] = "fetch"
    /\ \/ /\ NoFault
          /\ \E msgs \in FetchOutcomes(selected, seqs[f], FALSE) :
                 /\ messages' = [messages EXCEPT ![f] = msgs]
                 /\ wpc' = [wpc EXCEPT ![f] = [i \in 1..Len(msgs) |-> "wait"]]
                 /\ wbody' = [wbody EXCEPT ![f] = [i \in 1..Len(msgs) |-> NoBody]]
          /\ hist' = [hist EXCEPT !.raced = Raced(f)]
       \/ /\ Fault
          /\ \E msgs \in FetchOutcomes(selected, seqs[f], TRUE) :
                 /\ messages' = [messages EXCEPT ![f] = msgs]
                 /\ wpc' = [wpc EXCEPT ![f] = [i \in 1..Len(msgs) |-> "wait"]]
                 /\ wbody' = [wbody EXCEPT ![f] = [i \in 1..Len(msgs) |-> NoBody]]
          /\ hist' = [hist EXCEPT !.raced = Raced(f), !.faultSweep = sweeps]
    /\ fpc' = [fpc EXCEPT ![f] = "workers"]
    /\ UNCHANGED << sideVars, ctlVars, selected, ledger, since, seqs, resultChan,
                    errorChan, closed, newMessages, rssSt, jsonSt, docVars >>

\* ------------------------------------------------------ processMessagesAsync
\* A message worker acquires the per-pass semaphore.
WorkerAcquire(f, i) ==
    /\ fpc[f] = "workers"
    /\ i \in 1..Len(wpc[f])
    /\ wpc[f][i] = "wait"
    /\ CanAcquire(WorkersHeld(f), maxWorkers)
    /\ wpc' = [wpc EXCEPT ![f][i] = "check"]
    /\ UNCHANGED << sideVars, ctlVars, faults, selected, ledger, fpc, since, seqs,
                    messages, wbody, resultChan, errorChan, closed,
                    newMessages, rssSt, jsonSt, docVars, hist >>

\* IsMessageProcessed: an error goes to errorChan, a processed message is
\* skipped, an unseen one goes on to the body fetch.
WorkerCheck(f, i) ==
    /\ fpc[f] = "workers"
    /\ i \in 1..Len(wpc[f])
    /\ wpc[f][i] = "check"
    /\ \/ /\ NoFault
          /\ wpc' = [wpc EXCEPT ![f][i] =
                        IF IsMessageProcessed(ledger, f, messages[f][i].uid)
                        THEN "done" ELSE "fetch"]
          /\ errorChan' = errorChan
          /\ hist' = [hist EXCEPT !.absent[f] =
                         IF messages[f][i].uid \in {r.uid : r \in ledger[f]}
                         THEN @ ELSE @ \cup {messages[f][i].uid}]
       \/ /\ Fault
          /\ wpc' = [wpc EXCEPT ![f][i] = "done"]
          /\ errorChan' = [errorChan EXCEPT ![f] = @ + 1]
          /\ hist' = [hist EXCEPT !.faultSweep = sweeps]
    /\ UNCHANGED << sideVars, ctlVars, selected, ledger, fpc, since, seqs, messages,
                    wbody, resultChan, closed, newMessages, rssSt, jsonSt,
                    docVars >>

\* GetMessageContent: UID FETCH on the mailbox selected now.  No such uid,
\* no mailbox, or a failed call give an error, which is replaced by the
\* empty content.
WorkerFetch(f, i) ==
    /\ fpc[f] = "workers"
    /\ i \in 1..Len(wpc[f])
    /\ wpc[f][i] = "fetch"
    /\ \/ /\ HasUID(selected, messages[f][i].uid)
          /\ NoFault
          /\ wpc' = [wpc EXCEPT ![f][i] = "mark"]
          /\ wbody' = [wbody EXCEPT ![f][i] = ContentOf(selected, messages[f][i].uid)]
          /\ errorChan' = errorChan
          /\ hist' = [hist EXCEPT !.raced = Raced(f)]
       \/ /\ \/ ~HasUID(selected, messages[f][i].uid) /\ NoFault
             \/ Fault
          /\ wpc' = [wpc EXCEPT ![f][i] = ContentOnError.next]
          /\ wbody' = [wbody EXCEPT ![f][i] = ContentOnError.body]
          /\ errorChan' = [errorChan EXCEPT ![f] =
                              IF ContentOnError.next = "done" THEN @ + 1 ELSE @]
          /\ hist' = [hist EXCEPT !.raced = Raced(f),
                                  !.fetchFailed[f] = @ \cup {i},
                                  !.faultSweep = IF faults' # faults THEN sweeps ELSE @]
    /\ UNCHANGED << sideVars, ctlVars, selected, ledger, fpc, since, seqs, messages,
                    resultChan, closed, newMessages, rssSt, jsonSt, docVars >>

\* MarkMessageProcessed: the record is committed; a failed write sends the
\* error instead and the message is not a result of this pass.
WorkerMark(f, i) ==
    /\ fpc[f] = "workers"
    /\ i \in 1..Len(wpc[f])
    /\ wpc[f][i] = "mark"
    /\ \/ /\ NoFault
          /\ wpc' = [wpc EXCEPT ![f][i] = "send"]
          /\ ledger' = MarkMessageProcessed(ledger, f, messages[f][i].uid,
                                            messages[f][i].date)
          /\ errorChan' = errorChan
          /\ hist' = [hist EXCEPT !.marked[f] = @ \cup {messages[f][i].uid}]
       \/ /\ Fault
          /\ wpc' = [wpc EXCEPT ![f][i] = "done"]
          /\ ledger' = ledger
          /\ errorChan' = [errorChan EXCEPT ![f] = @ + 1]
          /\ hist' = [hist EXCEPT !.markFailed[f] = @ \cup {messages[f][i].uid},
                                  !.faultSweep = sweeps]
    /\ UNCHANGED << sideVars, ctlVars, selected, fpc, since, seqs, messages, wbody,
                    resultChan, closed, newMessages, rssSt, jsonSt, docVars >>

\* resultChan <- rssMsg, and the worker returns.  The channel has room for
\* every candidate, so the send never waits.
WorkerSend(f, i) ==
    /\ fpc[f] = "workers"
    /\ i \in 1..Len(wpc[f])
    /\ wpc[f][i] = "send"
    /\ wpc' = [wpc EXCEPT ![f][i] = "done"]
    /\ resultChan' = [resultChan EXCEPT ![f] =
                         Append(@, [date |-> messages[f][i].date,
                                    uid |-> messages[f][i].uid,
                                    body |-> wbody[f][i]])]
    /\ UNCHANGED << sideVars, ctlVars, faults, selected, ledger, fpc, since, seqs,
                    messages, wbody, errorChan, closed, newMessages, rssSt,
                    jsonSt, docVars, hist >>

\* The closer goroutine: wg.Wait(), then both channels are closed.
CloseChannels(f) ==
    /\ fpc[f] = "workers"
    /\ ~closed[f]
    /\ WaitGroupDone(Range(wpc[f]))
    /\ closed' = [closed EXCEPT ![f] = TRUE]
    /\ UNCHANGED << sideVars, ctlVars, faults, selected, ledger, fpc, since, seqs,
                    messages, wpc, wbody, resultChan, errorChan, newMessages,
                    rssSt, jsonSt, docVars, hist >>

\* The collector loop receives a result.
CollectResult(f) ==
    /\ fpc[f] = "workers"
    /\ resultChan[f] # << >>
    /\ newMessages' = [newMessages EXCEPT ![f] = Append(@, Head(resultChan[f]))]
    /\ resultChan' = [resultChan EXCEPT ![f] = Tail(@)]
    /\ UNCHANGED << sideVars, ctlVars, faults, selected, ledger, fpc, since, seqs,
                    messages, wpc, wbody, errorChan, closed, rssSt, jsonSt,
                    docVars, hist >>

\* The collector loop receives an error (it is only logged).
CollectError(f) ==
    /\ fpc[f] = "workers"
    /\ errorChan[f] > 0
    /\ errorChan' = [errorChan EXCEPT ![f] = @ - 1]
    /\ UNCHANGED << sideVars, ctlVars, faults, selected, ledger, fpc, since, seqs,
                    messages, wpc, wbody, resultChan, closed, newMessages,
                    rssSt, jsonSt, docVars, hist >>

\* Both channels are closed and drained: the collector returns.  With no
\* new message processFolder returns nil; otherwise generateFeedsAsync
\* starts the two generator goroutines.
CollectExit(f) ==
    /\ fpc[f] = "workers"
    /\ closed[f]
    /\ resultChan[f] = << >>
    /\ errorChan[f] = 0
    /\ IF Len(newMessages[f]) = 0
       THEN /\ fpc' = [fpc EXCEPT ![f] = "done"]
            /\ UNCHANGED << rssSt, jsonSt >>
       ELSE /\ fpc' = [fpc EXCEPT ![f] = "gen"]
            /\ rssSt' = [rssSt EXCEPT ![f] = "run"]
            /\ jsonSt' = [jsonSt EXCEPT ![f] = "run"]
    /\ UNCHANGED << sideVars, ctlVars, faults, selected, ledger, since, seqs, messages,
                    wpc, wbody, resultChan, errorChan, closed, newMessages,
                    docVars, hist >>

\* -------------------------------------------------------- generateFeedsAsync
File(f, k) == IF k = "xml" THEN xmlDoc[f] ELSE jsonDoc[f]

\* A generator reaches os.WriteFile with the document built from msgs: the
\* path is opened and truncated.  The document of the .xml file carries the
\* time it was built.
WriteFileOpen(f, k, msgs) ==
    /\ writing[f][k] = NoDoc
    /\ writing' = [writing EXCEPT ![f][k] =
                      [created |-> IF k = "xml" THEN sweeps ELSE 0,
                       state |-> "complete",
                       items |-> IF k = "xml" THEN RSSItems(msgs) ELSE JSONItems(msgs)]]
    /\ IF k = "xml"
       THEN xmlDoc' = [xmlDoc EXCEPT ![f] = Truncated(sweeps)] /\ jsonDoc' = jsonDoc
       ELSE jsonDoc' = [jsonDoc EXCEPT ![f] = Truncated(0)] /\ xmlDoc' = xmlDoc
    /\ UNCHANGED << ctlVars, faults, selected, ledger, passVars, hist, signalled,
                    served, normVars, argVars >>

\* os.WriteFile writes the bytes and closes the file; a failed write leaves
\* the truncated file.  The generator returns nil or the error; called from
\* generateFeedsAsync, its goroutine ends with that result.
WriteFileWrite(f, k) ==
    /\ writing[f][k] # NoDoc
    /\ writing' = [writing EXCEPT ![f][k] = NoDoc]
    /\ \E st \in {"ok", "err"} :
           /\ IF st = "ok" THEN NoFault ELSE Fault
           /\ IF st = "ok" /\ k = "xml"
              THEN xmlDoc' = [xmlDoc EXCEPT ![f] = writing[f][k]]
              ELSE xmlDoc' = xmlDoc
           /\ IF st = "ok" /\ k = "json"
              THEN jsonDoc' = [jsonDoc EXCEPT ![f] = writing[f][k]]
              ELSE jsonDoc' = jsonDoc
           /\ IF fpc[f] = "gen" /\ k = "xml"
              THEN rssSt' = [rssSt EXCEPT ![f] = st]
              ELSE rssSt' = rssSt
           /\ IF fpc[f] = "gen" /\ k = "json"
              THEN jsonSt' = [jsonSt EXCEPT ![f] = st]
              ELSE jsonSt' = jsonSt
           /\ hist' = IF fpc[f] # "gen" THEN hist
                      ELSE IF st = "ok"
                      THEN [hist EXCEPT !.fed[f] = @ \cup UIDs(writing[f][k].items)]
                      ELSE [hist EXCEPT !.faultSweep = sweeps]
    /\ UNCHANGED << ctlVars, selected, ledger, fpc, since, seqs, messages, wpc,
                    wbody, resultChan, errorChan, closed, newMessages, signalled,
                    served, normVars, argVars >>

\* GenerateFeed: every item is built, the output directory is made and the
\* .xml file is opened by os.WriteFile; a failure before the file is opened
\* leaves the old file.  The processor runs with remove_css off, as it is
\* when the configuration does not set it, and with it off processContent
\* returns for every body.
GenerateFeed(f) ==
    /\ fpc[f] = "gen"
    /\ rssSt[f] = "run"
    /\ \/ WriteFileOpen(f, "xml", FeedMessages(newMessages[f], ledger[f]))
       \/ /\ writing[f]["xml"] = NoDoc
          /\ Fault
          /\ rssSt' = [rssSt EXCEPT ![f] = "err"]
          /\ hist' = [hist EXCEPT !.faultSweep = sweeps]
          /\ UNCHANGED << sideVars, ctlVars, selected, ledger, fpc, since, seqs,
                          messages, wpc, wbody, resultChan, errorChan, closed,
                          newMessages, jsonSt, docVars >>

\* GenerateJSONFeed: the .json file, written the same way.
GenerateJSONFeed(f) ==
    /\ fpc[f] = "gen"
    /\ jsonSt[f] = "run"
    /\ \/ WriteFileOpen(f, "json", FeedMessages(newMessages[f], ledger[f]))
       \/ /\ writing[f]["json"] = NoDoc
          /\ Fault
          /\ jsonSt' = [jsonSt EXCEPT ![f] = "err"]
          /\ hist' = [hist EXCEPT !.faultSweep = sweeps]
          /\ UNCHANGED << sideVars, ctlVars, selected, ledger, fpc, since, seqs,
                          messages, wpc, wbody, resultChan, errorChan, closed,
                          newMessages, rssSt, docVars >>

\* generateFeedsAsync: wg.Wait(), then an error if either generator failed;
\* processFolder returns it.
GenJoin(f) ==
    /\ fpc[f] = "gen"
    /\ rssSt[f] # "run"
    /\ jsonSt[f] # "run"
    /\ IF rssSt[f] = "ok" /\ jsonSt[f] = "ok"
       THEN /\ fpc' = [fpc EXCEPT ![f] = "done"]
            /\ hist' = hist
       ELSE /\ fpc' = [fpc EXCEPT ![f] = "failed"]
            /\ hist' = [hist EXCEPT !.ownErr[f] = TRUE,
                                    !.genFailed[f] = UIDs(newMessages[f])]
    /\ UNCHANGED << sideVars, ctlVars, faults, selected, ledger, since, seqs, messages,
                    wpc, wbody, resultChan, errorChan, closed, newMessages,
                    rssSt, jsonSt, docVars >>

\* ProcessFolders: wg.Wait() returns and the call returns.
SweepReturn ==
    /\ sweepPc = "running"
    /\ FoldersDone({fpc[f] : f \in Folders})
    /\ sweepPc' = "idle"
    /\ retVal' = SweepResult({fpc[f] : f \in Folders})
    /\ UNCHANGED << sideVars, maxWorkers, sweeps, resets, faults, selected, ledger,
                    passVars, docVars, hist >>

\* ResetFolder, the reset command: a process of its own on the same
\* database file, run at any time, a sweep in flight or not.
ResetFolder(f) ==
    /\ resets < MaxResets
    /\ faults + resets < MaxDisturbances
    /\ resets' = resets + 1
    /\ ledger' = ClearFolderHistory(ledger, f)
    /\ hist' = [hist EXCEPT !.fed[f] = {},
                            !.resetSweep = sweeps,
                            !.resetOf = IF ledger[f] = {} THEN "none" ELSE f]
    /\ UNCHANGED << sideVars, maxWorkers, sweepPc, sweeps, retVal, faults, selected,
                    passVars, docVars >>

Next ==
    \/ StartSweep
    \/ \E f \in Folders : FolderAcquire(f)
    \/ \E f \in Folders : GetWatermark(f)
    \/ \E f \in Folders : SelectFolder(f)
    \/ \E f \in Folders : SearchMessages(f)
    \/ \E f \in Folders : FetchMessages(f)
    \/ \E f \in Folders : \E i \in 1..MaxMailbox : WorkerAcquire(f, i)
    \/ \E f \in Folders : \E i \in 1..MaxMailbox : WorkerCheck(f, i)
    \/ \E f \in Folders : \E i \in 1..MaxMailbox : WorkerFetch(f, i)
    \/ \E f \in Folders : \E i \in 1..MaxMailbox : WorkerMark(f, i)
    \/ \E f \in Folders : \E i \in 1..MaxMailbox : WorkerSend(f, i)
    \/ \E f \in Folders : CloseChannels(f)
    \/ \E f \in Folders : CollectResult(f)
    \/ \E f \in Folders : CollectError(f)
    \/ \E f \in Folders : CollectExit(f)
    \/ \E f \in Folders : GenerateFeed(f)
    \/ \E f \in Folders : GenerateJSONFeed(f)
    \/ \E f \in Folders : \E k \in Kinds : WriteFileWrite(f, k)
    \/ \E f \in Folders : GenJoin(f)
    \/ SweepReturn
    \/ \E f \in Folders : ResetFolder(f)

Spec == Init /\ [][Next]_vars

\* A step of a goroutine of the running sweep: everything but the tick that
\* starts a sweep and the reset command.
Step ==
    \/ \E f \in Folders : FolderAcquire(f)
    \/ \E f \in Folders : GetWatermark(f)
    \/ \E f \in Folders : SelectFolder(f)
    \/ \E f \in Folders : SearchMessages(f)
    \/ \E f \in Folders : FetchMessages(f)
    \/ \E f \in Folders : \E i \in 1..MaxMailbox : WorkerAcquire(f, i)
    \/ \E f \in Folders : \E i \in 1..MaxMailbox : WorkerCheck(f, i)
    \/ \E f \in Folders : \E i \in 1..MaxMailbox : WorkerFetch(f, i)
    \/ \E f \in Folders : \E i \in 1..MaxMailbox : WorkerMark(f, i)
    \/ \E f \in Folders : \E i \in 1..MaxMailbox : WorkerSend(f, i)
    \/ \E f \in Folders : CloseChannels(f)
    \/ \E f \in Folders : CollectResult(f)
    \/ \E f \in Folders : CollectError(f)
    \/ \E f \in Folders : CollectExit(f)
    \/ \E f \in Folders : GenerateFeed(f)
    \/ \E f \in Folders : GenerateJSONFeed(f)
    \/ \E f \in Folders : \E k \in Kinds : WriteFileWrite(f, k)
    \/ \E f \in Folders : GenJoin(f)
    \/ SweepReturn

\* The process command with once set, started on the ledger an earlier
\* process left in the database file: any of the folder's upstream messages
\* may be in it.
InitOnce ==
    /\ maxWorkers \in 1..MaxWorkersBound
    /\ ledger \in [Folders -> SUBSET UNION {Range(Upstream[f]) : f \in Folders}]
    /\ \A f \in Folders : ledger[f] \subseteq Range(Upstream[f])
    /\ InitSession
    /\ removeCSSOn = FALSE
    /\ content = << >>
    /\ result = NoResult
    /\ InitItemVars
    /\ InitCfgVars
    /\ InitPathVars
    /\ lastErr = FALSE

\* runProcess with once set makes the one ProcessFolders call.
RunOnce ==
    /\ sweeps = 0
    /\ StartSweep

NextOnce ==
    \/ RunOnce
    \/ Step

\* The Go scheduler runs some runnable goroutine, and every mail, ledger
\* and file call returns: while a step of the sweep is possible, one is
\* taken.
SpecOnce == InitOnce /\ [][NextOnce]_vars /\ WF_vars(Step)

\* ----------------------------------------------------------- the ledger API
\* Everything but lastErr that no ledger call changes.
dbFrame == << signalled, serveVars, normVars, itemVars, cfgVars, pathVars >>

\* db.MarkMessageProcessed, called with any uid and timestamp.
CallMarkMessageProcessed(f, uid, t) ==
    /\ ledger' = MarkMessageProcessed(ledger, f, uid, t)
    /\ lastErr' = FALSE
    /\ UNCHANGED << ctlVars, faults, selected, passVars, docVars, hist, dbFrame >>

\* db.GetLastProcessedDate; the caller keeps the time as lastProcessed and
\* the error.
CallGetLastProcessedDate(f) ==
    /\ since' = [since EXCEPT ![f] = GetLastProcessedDate(ledger, f).date]
    /\ lastErr' = GetLastProcessedDate(ledger, f).err
    /\ UNCHANGED << ctlVars, faults, selected, ledger, fpc, seqs, messages, wpc,
                    wbody, resultChan, errorChan, closed, newMessages, rssSt,
                    jsonSt, docVars, hist, dbFrame >>

\* db.ClearFolderHistory.
CallClearFolderHistory(f) ==
    /\ ledger' = ClearFolderHistory(ledger, f)
    /\ lastErr' = FALSE
    /\ UNCHANGED << ctlVars, faults, selected, passVars, docVars, hist, dbFrame >>

NextLedger ==
    \/ \E f \in Folders : \E uid \in 1..MaxMailbox : \E t \in Times :
           CallMarkMessageProcessed(f, uid, t)
    \/ \E f \in Folders : CallGetLastProcessedDate(f)
    \/ \E f \in Folders : CallClearFolderHistory(f)
    \/ \E f \in Folders : ResetFolder(f)

SpecLedger == Init /\ [][NextLedger]_vars

\* ------------------------------------------------------ the processing loop
\* A SIGINT or SIGTERM arrives, before, during or between sweeps;
\* signal.Notify buffers it in sigChan (one slot: a further signal is
\* dropped).
Signal ==
    /\ sweepPc # "exited"
    /\ sweeps <= MaxSignalSweep
    /\ ~signalled
    /\ signalled' = TRUE
    /\ UNCHANGED << ctlVars, faults, selected, ledger, passVars, docVars, hist,
                    serveVars, normVars, argVars >>

\* The loop's select receives from sigChan and runProcess returns.  The
\* select is reached only after the first call of ProcessFolders returned.
Shutdown ==
    /\ sweepPc = "idle"
    /\ sweeps >= 1
    /\ signalled
    /\ sweepPc' = "exited"
    /\ UNCHANGED << maxWorkers, sweeps, retVal, resets, faults, selected, ledger,
                    passVars, docVars, hist, sideVars >>

NextShutdown ==
    \/ Next
    \/ Signal
    \/ Shutdown

SpecShutdown == Init /\ [][NextShutdown]_vars

\* ------------------------------------------------- a document and its reader
\* The message lists a generator can be handed for folder f: the non-empty
\* selections of the folder's messages, each with its body.
FeedInputs(f) ==
    {[i \in 1..Len(Pick(Upstream[f], S, 1)) |->
         [date |-> Pick(Upstream[f], S, 1)[i].date,
          uid |-> Pick(Upstream[f], S, 1)[i].uid,
          body |-> ContentOf(f, Pick(Upstream[f], S, 1)[i].uid)]] :
     S \in (SUBSET (1..Len(Upstream[f]))) \ {{}}}

\* handleFeed: os.ReadFile of the document path; a missing file is a 404,
\* another read error, or a failed write of the response, a 500, and any
\* content read is sent as it was read.
HandleFeed(f, k) ==
    /\ \/ /\ NoFault
          /\ served' = IF File(f, k).state = "absent"
                       THEN [body |-> NoDoc, status |-> 404]
                       ELSE [body |-> File(f, k), status |-> 200]
       \/ /\ Fault
          /\ served' = [body |-> NoDoc, status |-> 500]
    /\ UNCHANGED << ctlVars, selected, ledger, passVars, docVars, hist,
                    signalled, writing, normVars, argVars >>

NextServe ==
    \/ \E f \in Folders : \E k \in Kinds : \E msgs \in FeedInputs(f) :
           WriteFileOpen(f, k, msgs)
    \/ \E f \in Folders : \E k \in Kinds : WriteFileWrite(f, k)
    \/ \E f \in Folders : \E k \in Kinds : HandleFeed(f, k)

SpecServe == Init /\ [][NextServe]_vars

\* ----------------------------------------------------------------- helpers
\* ProcessFolders has returned at least once and none is in flight.
Returned == sweepPc = "idle" /\ sweeps > 0

\* What the pass over f has produced as new so far.
NewSoFar(f) == resultChan[f] \o newMessages[f]

\* The current pass over f was preceded by a pass over f with no reset
\* since that pass began, runs after the last injected failure, and no session command of
\* any pass ran on a foreign mailbox.
CleanFollowUp ==
    /\ sweeps >= 2
    /\ hist.faultSweep < sweeps
    /\ hist.resetSweep < sweeps - 1
    /\ ~hist.raced

\* ------------------------------------------------------------------ claims
\* C1: once a message id was included in a feed document written by a pass
\* over folder f, no later pass over f (with no ResetFolder(f) after the
\* document was written) produces that id as a new message.
NoDuplicationAcrossPasses ==
    \A f \in Folders :
        fpc[f] = "workers" => UIDs(NewSoFar(f)) \cap hist.fed[f] = {}

\* C2: after a pass that reached assembly, the items of both
\* documents are the folder's ledgered messages, whatever window the ledger
\* gives without error (stated for runs in which every session command ran
\* on its own mailbox and the ledger was not reset after the pass).
DocsRegeneratedFromLedger ==
    \A f \in Folders :
        (fpc[f] = "done" /\ rssSt[f] = "ok" /\ jsonSt[f] = "ok"
            /\ hist.resetSweep # sweeps /\ ~hist.raced)
        => \A w \in LedgerWindow(ledger[f], FeedWindow) :
               ~w.err => /\ UIDs(xmlDoc[f].items) = UIDs(w.rows)
                         /\ UIDs(jsonDoc[f].items) = UIDs(w.rows)

\* C3: a second sweep over the same upstream messages, with no failed call
\* and no reset, finds no new message, adds no ledger record and leaves
\* both documents as the first sweep wrote them.
SweepIdempotent ==
    (Returned /\ sweeps = 2 /\ faults = 0 /\ resets = 0)
    => /\ \A f \in Folders : Len(newMessages[f]) = 0
       /\ ledger = hist.prevLedger
       /\ xmlDoc = hist.prevXml
       /\ jsonDoc = hist.prevJson

\* C4: a candidate whose MarkMessageProcessed failed is no result of the
\* pass and is absent from the ledger, and the next pass over the folder
\* gets it as a candidate again.
FailedMarkIsRetried ==
    \A f \in Folders :
        /\ (sweepPc = "running" =>
               \A u \in hist.markFailed[f] :
                   /\ u \notin UIDs(NewSoFar(f))
                   /\ ~IsMessageProcessed(ledger, f, u))
        /\ (CleanFollowUp /\ fpc[f] \in {"workers", "gen", "done"}
               => hist.markFailedPrev[f] \subseteq UIDs(messages[f]))

\* C5: a candidate whose GetMessageContent failed holds the empty content
\* and goes on to be marked (the fetch is not tried again, and the pass can
\* then fail only in feed generation); once marked it is in the ledger, is
\* a result of the pass with that empty content, and is in both documents
\* when the pass succeeds.
FetchFailureGivesEmptyItem ==
    \A f \in Folders : \A i \in hist.fetchFailed[f] :
        /\ wbody[f][i] = EmptyBody
        /\ wpc[f][i] \in {"mark", "send", "done"}
        /\ fpc[f] = "failed" => (rssSt[f] = "err" \/ jsonSt[f] = "err")
        /\ (wpc[f][i] = "done" /\ messages[f][i].uid \notin hist.markFailed[f]
                /\ hist.resetSweep # sweeps)
           => /\ IsMessageProcessed(ledger, f, messages[f][i].uid)
              /\ [date |-> messages[f][i].date, uid |-> messages[f][i].uid,
                  body |-> EmptyBody] \in Range(NewSoFar(f))
              /\ fpc[f] = "done" =>
                    /\ [date |-> messages[f][i].date, uid |-> messages[f][i].uid,
                        body |-> EmptyBody] \in Range(xmlDoc[f].items)
                    /\ [date |-> messages[f][i].date, uid |-> messages[f][i].uid,
                        body |-> EmptyBody] \in Range(jsonDoc[f].items)

\* C5 witness: a body fetch failed by itself, and the pass succeeded with
\* that message, empty, in the documents.
C5Witness ==
    \E f \in Folders : \E i \in hist.fetchFailed[f] :
        /\ ~hist.raced
        /\ faults = 1
        /\ fpc[f] = "done"
        /\ [date |-> messages[f][i].date, uid |-> messages[f][i].uid,
            body |-> EmptyBody] \in Range(xmlDoc[f].items)
        /\ IsMessageProcessed(ledger, f, messages[f][i].uid)

\* C6: after a pass whose feed generation failed, the records it wrote are
\* still in the ledger, and the next pass over the folder, when it ends
\* without an error, leaves those messages in both documents.
AssemblyFailureRecovered ==
    \A f \in Folders :
        (CleanFollowUp /\ fpc[f] = "done")
        => \A u \in hist.genFailedPrev[f] :
               /\ IsMessageProcessed(hist.prevLedger, f, u)
               /\ u \in UIDs(xmlDoc[f].items)
               /\ u \in UIDs(jsonDoc[f].items)

\* C7: when ProcessFolders has returned it returned nil, every folder is
\* in a terminal state, and a folder is failed only by an error of its own:
\* its watermark could not be read, a command of its own on the session
\* failed, or one of its generators failed; the failure of another
\* folder's pass does not end it.
FolderFailureIsolated ==
    Returned =>
        /\ retVal = "nil"
        /\ \A f \in Folders :
               /\ fpc[f] \in Terminal
               /\ fpc[f] = "failed" => hist.ownErr[f]

\* C8: when ProcessFolders has returned, no folder pass, message worker,
\* channel closer or generator goroutine of that sweep is still running.
ReturnsAfterAllGoroutines ==
    Returned =>
        \A f \in Folders :
            /\ fpc[f] \notin Running \cup {"spawned"}
            /\ \A i \in 1..Len(wpc[f]) : wpc[f][i] = "done"
            /\ Len(wpc[f]) > 0 => closed[f]
            /\ rssSt[f] # "run"
            /\ jsonSt[f] # "run"

\* C8 witness: the sweep returned after a folder ran two workers and both
\* generators.
C8Witness ==
    /\ Returned
    /\ \E f \in Folders :
           /\ Len(wpc[f]) = 2
           /\ rssSt[f] = "ok"
           /\ jsonSt[f] = "ok"

\* C9: the content a worker of folder f holds was read from mailbox f:
\* every body fetch ran while f was the selected mailbox.
BodyFromOwnFolder ==
    \A f \in Folders : \A i \in 1..Len(wbody[f]) :
        wbody[f][i].src \in {"notfetched", "empty", f}

\* C10: at most maxWorkers folder passes are inside processFolder, and in
\* each pass at most maxWorkers workers hold the semaphore.
BoundedConcurrency ==
    /\ FoldersHeld <= maxWorkers
    /\ \A f \in Folders : WorkersHeld(f) <= maxWorkers

\* C10 witness: with the limit at one, a folder goroutine and a message
\* worker are both kept waiting by a holder.
C10Witness ==
    /\ maxWorkers = 1
    /\ \E f \in Folders, g \in Folders :
           /\ fpc[g] = "spawned"
           /\ fpc[f] = "workers"
           /\ \E i \in 1..Len(wpc[f]), j \in 1..Len(wpc[f]) :
                  wpc[f][i] \in Holding /\ wpc[f][j] = "wait"

\* ------------------------------------------------------------ the normalizer
\* A string is the sequence of its bytes; offsets count from 0 as in Go.
\* A byte below 0x80 is written as its ASCII character ("x0B" for the
\* vertical tab), a byte from 0x80 on as "x80" ... "xFF".  A call returns [ok |-> TRUE, out |-> string], or ok = FALSE
\* when a slice expression is out of range (a run-time panic).
\* The passes return an empty string as it is, since no pattern occurs in
\* it; this keeps the evaluation of a chain of passes shallow.
MaxFrags == 3
MaxHTMLContentLength == 12
MaxTextContentLength == 6
MaxRSSHTMLLength == 10
MaxRSSTextLength == 5
MaxSummaryLength == 8

Ok(str) == [ok |-> TRUE, out |-> str]

Panicked == [ok |-> FALSE, out |-> << >>]

\* s[lo:] and s[:hi], for offsets within the string.
From(str, lo) == SubSeq(str, lo + 1, Len(str))

To(str, hi) == SubSeq(str, 1, hi)

HasPrefixAt(str, pat, i) ==
    /\ i + Len(pat) <= Len(str)
    /\ \A j \in 1..Len(pat) : str[i + j] = pat[j]

\* strings.Index: the offset of the first occurrence, or -1 (at once when
\* the pattern is longer than the string).
Index(str, pat) ==
    IF Len(pat) > Len(str) THEN -1
    ELSE IF \E i \in 0..Len(str) : HasPrefixAt(str, pat, i)
    THEN CHOOSE i \in 0..Len(str) :
             /\ HasPrefixAt(str, pat, i)
             /\ \A j \in 0..(i - 1) : ~HasPrefixAt(str, pat, j)
    ELSE -1

Contains(str, pat) == Index(str, pat) # -1

RECURSIVE ReplaceAll(_, _, _)
\* strings.ReplaceAll for a non-empty pattern.
ReplaceAll(str, old, new) ==
    IF Len(old) > Len(str) \/ Index(str, old) = -1 THEN str
    ELSE To(str, Index(str, old)) \o new
             \o ReplaceAll(From(str, Index(str, old) + Len(old)), old, new)

Lower(c) ==
    CASE c = "A" -> "a"
    [] c = "B" -> "b"
    [] c = "C" -> "c"
    [] c = "D" -> "d"
    [] c = "E" -> "e"
    [] c = "F" -> "f"
    [] c = "G" -> "g"
    [] c = "H" -> "h"
    [] c = "I" -> "i"
    [] c = "J" -> "j"
    [] c = "K" -> "k"
    [] c = "L" -> "l"
    [] c = "M" -> "m"
    [] c = "N" -> "n"
    [] c = "O" -> "o"
    [] c = "P" -> "p"
    [] c = "Q" -> "q"
    [] c = "R" -> "r"
    [] c = "S" -> "s"
    [] c = "T" -> "t"
    [] c = "U" -> "u"
    [] c = "V" -> "v"
    [] c = "W" -> "w"
    [] c = "X" -> "x"
    [] c = "Y" -> "y"
    [] c = "Z" -> "z"
    [] OTHER -> c

\* Bytes from 0x80 on, in order.
HiBytes ==
    << "x80", "x81", "x82", "x83", "x84", "x85", "x86", "x87",
       "x88", "x89", "x8A", "x8B", "x8C", "x8D", "x8E", "x8F",
       "x90", "x91", "x92", "x93", "x94", "x95", "x96", "x97",
       "x98", "x99", "x9A", "x9B", "x9C", "x9D", "x9E", "x9F",
       "xA0", "xA1", "xA2", "xA3", "xA4", "xA5", "xA6", "xA7",
       "xA8", "xA9", "xAA", "xAB", "xAC", "xAD", "xAE", "xAF",
       "xB0", "xB1", "xB2", "xB3", "xB4", "xB5", "xB6", "xB7",
       "xB8", "xB9", "xBA", "xBB", "xBC", "xBD", "xBE", "xBF",
       "xC0", "xC1", "xC2", "xC3", "xC4", "xC5", "xC6", "xC7",
       "xC8", "xC9", "xCA", "xCB", "xCC", "xCD", "xCE", "xCF",
       "xD0", "xD1", "xD2", "xD3", "xD4", "xD5", "xD6", "xD7",
       "xD8", "xD9", "xDA", "xDB", "xDC", "xDD", "xDE", "xDF",
       "xE0", "xE1", "xE2", "xE3", "xE4", "xE5", "xE6", "xE7",
       "xE8", "xE9", "xEA", "xEB", "xEC", "xED", "xEE", "xEF",
       "xF0", "xF1", "xF2", "xF3", "xF4", "xF5", "xF6", "xF7",
       "xF8", "xF9", "xFA", "xFB", "xFC", "xFD", "xFE", "xFF" >>

\* The bytes from 0x80 on, as a set.
HiByteSet == {HiBytes[i] : i \in 1..128}

\* The value of a byte from 0x80 on.
HiVal == [b \in HiByteSet |-> 127 + (CHOOSE i \in 1..128 : HiBytes[i] = b)]

\* c >= utf8.RuneSelf.
IsHi(b) == b \in HiByteSet

\* The value of a byte as the decoder reads it: 0x80..0xFF, and 0 for every
\* ASCII byte, which the decoder tells apart from no byte from 0x80 on.
ByteVal(b) == IF b \in HiByteSet THEN HiVal[b] ELSE 0

\* utf8.DecodeRuneInString at position i of str: the code point and its
\* width, or U+FFFD (65533) with width 1 when the bytes are no well-formed
\* encoding.  b holds the four bytes from position i on, -1 past the end
\* of str.  An ASCII byte is its own rune, given as code point 0 of width 1
\* (no operator asks which).
DecodeRune(str, i) ==
    LET Cont(c, lo, hi) == c >= lo /\ c <= hi
        Decode(b) ==
            IF b[0] < 128 THEN [w |-> 1, cp |-> 0]
            ELSE IF b[0] >= 194 /\ b[0] <= 223 /\ Cont(b[1], 128, 191)
            THEN [w |-> 2, cp |-> ((b[0] % 32) * 64) + (b[1] % 64)]
            ELSE IF /\ b[0] >= 224 /\ b[0] <= 239
                    /\ Cont(b[1], IF b[0] = 224 THEN 160 ELSE 128,
                            IF b[0] = 237 THEN 159 ELSE 191)
                    /\ Cont(b[2], 128, 191)
            THEN [w |-> 3,
                  cp |-> ((b[0] % 16) * 4096) + ((b[1] % 64) * 64) + (b[2] % 64)]
            ELSE IF /\ b[0] >= 240 /\ b[0] <= 244
                    /\ Cont(b[1], IF b[0] = 240 THEN 144 ELSE 128,
                            IF b[0] = 244 THEN 143 ELSE 191)
                    /\ Cont(b[2], 128, 191)
                    /\ Cont(b[3], 128, 191)
            THEN [w |-> 4,
                  cp |-> ((b[0] % 8) * 262144) + ((b[1] % 64) * 4096)
                             + ((b[2] % 64) * 64) + (b[3] % 64)]
            ELSE [w |-> 1, cp |-> 65533]
    IN  Decode([k \in 0..3 |->
                   IF i + k > Len(str) THEN -1 ELSE ByteVal(str[i + k])])

\* utf8.EncodeRune.  Of the code points below 0x80 only 'i' and 'k' are
\* the lower case of a rune from 0x80 on (U+0130 and U+212A).
EncodeRune(cp) ==
    LET Bytes(vals) == [k \in 1..Len(vals) |-> HiBytes[vals[k] - 127]]
    IN  IF cp = 105 THEN << "i" >>
        ELSE IF cp = 107 THEN << "k" >>
        ELSE Bytes(IF cp < 2048
                   THEN << 192 + (cp \div 64), 128 + (cp % 64) >>
                   ELSE IF cp < 65536
                   THEN << 224 + (cp \div 4096), 128 + ((cp \div 64) % 64),
                           128 + (cp % 64) >>
                   ELSE << 240 + (cp \div 262144), 128 + ((cp \div 4096) % 64),
                           128 + ((cp \div 64) % 64), 128 + (cp % 64) >>)

\* unicode.CaseRanges, the lower-case column for the code points from 0x80
\* on (Unicode 14): << first, last, step, delta >>.
CaseRanges ==
    << << 192, 214, 1, 32 >>, << 216, 222, 1, 32 >>, << 256, 302, 2, 1 >>,
       << 304, 304, 1, -199 >>, << 306, 310, 2, 1 >>, << 313, 327, 2, 1 >>,
       << 330, 374, 2, 1 >>, << 376, 376, 1, -121 >>, << 377, 381, 2, 1 >>,
       << 385, 385, 1, 210 >>, << 386, 388, 2, 1 >>, << 390, 390, 1, 206 >>,
       << 391, 391, 1, 1 >>, << 393, 394, 1, 205 >>, << 395, 395, 1, 1 >>,
       << 398, 398, 1, 79 >>, << 399, 399, 1, 202 >>, << 400, 400, 1, 203 >>,
       << 401, 401, 1, 1 >>, << 403, 403, 1, 205 >>, << 404, 404, 1, 207 >>,
       << 406, 406, 1, 211 >>, << 407, 407, 1, 209 >>, << 408, 408, 1, 1 >>,
       << 412, 412, 1, 211 >>, << 413, 413, 1, 213 >>, << 415, 415, 1, 214 >>,
       << 416, 420, 2, 1 >>, << 422, 422, 1, 218 >>, << 423, 423, 1, 1 >>,
       << 425, 425, 1, 218 >>, << 428, 428, 1, 1 >>, << 430, 430, 1, 218 >>,
       << 431, 431, 1, 1 >>, << 433, 434, 1, 217 >>, << 435, 437, 2, 1 >>,
       << 439, 439, 1, 219 >>, << 440, 440, 1, 1 >>, << 444, 444, 1, 1 >>,
       << 452, 452, 1, 2 >>, << 453, 453, 1, 1 >>, << 455, 455, 1, 2 >>,
       << 456, 456, 1, 1 >>, << 458, 458, 1, 2 >>, << 459, 475, 2, 1 >>,
       << 478, 494, 2, 1 >>, << 497, 497, 1, 2 >>, << 498, 500, 2, 1 >>,
       << 502, 502, 1, -97 >>, << 503, 503, 1, -56 >>, << 504, 542, 2, 1 >>,
       << 544, 544, 1, -130 >>, << 546, 562, 2, 1 >>, << 570, 570, 1, 10795 >>,
       << 571, 571, 1, 1 >>, << 573, 573, 1, -163 >>, << 574, 574, 1, 10792 >>,
       << 577, 577, 1, 1 >>, << 579, 579, 1, -195 >>, << 580, 580, 1, 69 >>,
       << 581, 581, 1, 71 >>, << 582, 590, 2, 1 >>, << 880, 882, 2, 1 >>,
       << 886, 886, 1, 1 >>, << 895, 895, 1, 116 >>, << 902, 902, 1, 38 >>,
       << 904, 906, 1, 37 >>, << 908, 908, 1, 64 >>, << 910, 911, 1, 63 >>,
       << 913, 929, 1, 32 >>, << 931, 939, 1, 32 >>, << 975, 975, 1, 8 >>,
       << 984, 1006, 2, 1 >>, << 1012, 1012, 1, -60 >>, << 1015, 1015, 1, 1 >>,
       << 1017, 1017, 1, -7 >>, << 1018, 1018, 1, 1 >>, << 1021, 1023, 1, -130 >>,
       << 1024, 1039, 1, 80 >>, << 1040, 1071, 1, 32 >>, << 1120, 1152, 2, 1 >>,
       << 1162, 1214, 2, 1 >>, << 1216, 1216, 1, 15 >>, << 1217, 1229, 2, 1 >>,
       << 1232, 1326, 2, 1 >>, << 1329, 1366, 1, 48 >>, << 4256, 4293, 1, 7264 >>,
       << 4295, 4295, 1, 7264 >>, << 4301, 4301, 1, 7264 >>, << 5024, 5103, 1, 38864 >>,
       << 5104, 5109, 1, 8 >>, << 7312, 7354, 1, -3008 >>, << 7357, 7359, 1, -3008 >>,
       << 7680, 7828, 2, 1 >>, << 7838, 7838, 1, -7615 >>, << 7840, 7934, 2, 1 >>,
       << 7944, 7951, 1, -8 >>, << 7960, 7965, 1, -8 >>, << 7976, 7983, 1, -8 >>,
       << 7992, 7999, 1, -8 >>, << 8008, 8013, 1, -8 >>, << 8025, 8031, 2, -8 >>,
       << 8040, 8047, 1, -8 >>, << 8072, 8079, 1, -8 >>, << 8088, 8095, 1, -8 >>,
       << 8104, 8111, 1, -8 >>, << 8120, 8121, 1, -8 >>, << 8122, 8123, 1, -74 >>,
       << 8124, 8124, 1, -9 >>, << 8136, 8139, 1, -86 >>, << 8140, 8140, 1, -9 >>,
       << 8152, 8153, 1, -8 >>, << 8154, 8155, 1, -100 >>, << 8168, 8169, 1, -8 >>,
       << 8170, 8171, 1, -112 >>, << 8172, 8172, 1, -7 >>, << 8184, 8185, 1, -128 >>,
       << 8186, 8187, 1, -126 >>, << 8188, 8188, 1, -9 >>, << 8486, 8486, 1, -7517 >>,
       << 8490, 8490, 1, -8383 >>, << 8491, 8491, 1, -8262 >>, << 8498, 8498, 1, 28 >>,
       << 8544, 8559, 1, 16 >>, << 8579, 8579, 1, 1 >>, << 9398, 9423, 1, 26 >>,
       << 11264, 11311, 1, 48 >>, << 11360, 11360, 1, 1 >>, << 11362, 11362, 1, -10743 >>,
       << 11363, 11363, 1, -3814 >>, << 11364, 11364, 1, -10727 >>, << 11367, 11371, 2, 1 >>,
       << 11373, 11373, 1, -10780 >>, << 11374, 11374, 1, -10749 >>, << 11375, 11375, 1, -10783 >>,
       << 11376, 11376, 1, -10782 >>, << 11378, 11378, 1, 1 >>, << 11381, 11381, 1, 1 >>,
       << 11390, 11391, 1, -10815 >>, << 11392, 11490, 2, 1 >>, << 11499, 11501, 2, 1 >>,
       << 11506, 11506, 1, 1 >>, << 42560, 42604, 2, 1 >>, << 42624, 42650, 2, 1 >>,
       << 42786, 42798, 2, 1 >>, << 42802, 42862, 2, 1 >>, << 42873, 42875, 2, 1 >>,
       << 42877, 42877, 1, -35332 >>, << 42878, 42886, 2, 1 >>, << 42891, 42891, 1, 1 >>,
       << 42893, 42893, 1, -42280 >>, << 42896, 42898, 2, 1 >>, << 42902, 42920, 2, 1 >>,
       << 42922, 42922, 1, -42308 >>, << 42923, 42923, 1, -42319 >>, << 42924, 42924, 1, -42315 >>,
       << 42925, 42925, 1, -42305 >>, << 42926, 42926, 1, -42308 >>, << 42928, 42928, 1, -42258 >>,
       << 42929, 42929, 1, -42282 >>, << 42930, 42930, 1, -42261 >>, << 42931, 42931, 1, 928 >>,
       << 42932, 42946, 2, 1 >>, << 42948, 42948, 1, -48 >>, << 42949, 42949, 1, -42307 >>,
       << 42950, 42950, 1, -35384 >>, << 42951, 42953, 2, 1 >>, << 42960, 42960, 1, 1 >>,
       << 42966, 42968, 2, 1 >>, << 42997, 42997, 1, 1 >>, << 65313, 65338, 1, 32 >>,
       << 66560, 66599, 1, 40 >>, << 66736, 66771, 1, 40 >>, << 66928, 66938, 1, 39 >>,
       << 66940, 66954, 1, 39 >>, << 66956, 66962, 1, 39 >>, << 66964, 66965, 1, 39 >>,
       << 68736, 68786, 1, 64 >>, << 71840, 71871, 1, 32 >>, << 93760, 93791, 1, 32 >>,
       << 125184, 125217, 1, 34 >> >>

\* unicode.ToLower for a code point from 0x80 on: the delta of the range
\* that holds it, when there is one.
UnicodeToLower(cp) ==
    LET Delta(rs) == IF rs = {} THEN 0 ELSE (CHOOSE r \in rs : TRUE)[4]
    IN  cp + Delta({r \in {CaseRanges[k] : k \in 1..Len(CaseRanges)} :
                       r[1] <= cp /\ cp <= r[2] /\ (cp - r[1]) % r[3] = 0})

RECURSIVE MapLower(_, _)
\* strings.Map(unicode.ToLower, s) from position i on: every rune is mapped
\* and encoded again; a byte that starts no well-formed encoding becomes
\* the three bytes of U+FFFD.
MapLower(str, i) ==
    LET Mapped(d) == EncodeRune(UnicodeToLower(d.cp)) \o MapLower(str, i + d.w)
    IN  IF i > Len(str) THEN << >>
        ELSE IF ~IsHi(str[i]) THEN << Lower(str[i]) >> \o MapLower(str, i + 1)
        ELSE Mapped(DecodeRune(str, i))

\* strings.ToLower.  Its byte-wise path for ASCII text gives what the
\* rune-wise path gives there.
ToLower(str) == MapLower(str, 1)

\* The ASCII bytes strings.TrimSpace trims: tab, line feed, vertical tab,
\* form feed, carriage return, space.
AsciiSpace == {"\t", "\n", "x0B", "\f", "\r", " "}

\* unicode.IsSpace for a code point from 0x80 on (White_Space).
UnicodeIsSpace(cp) ==
    \/ cp \in {133, 160, 5760, 8232, 8233, 8239, 8287, 12288}
    \/ cp \in 8192..8202

RECURSIVE TrimLeft(_)
\* strings.TrimLeftFunc(s, unicode.IsSpace): the first rune is dropped
\* while it is white space.
TrimLeft(str) ==
    LET Width(d) == IF UnicodeIsSpace(d.cp) THEN d.w ELSE 0
        Drop(n) == IF n = 0 THEN str ELSE TrimLeft(From(str, n))
    IN  IF str = << >> THEN str
        ELSE IF ~IsHi(str[1])
        THEN Drop(IF str[1] \in AsciiSpace THEN 1 ELSE 0)
        ELSE Drop(Width(DecodeRune(str, 1)))

RECURSIVE TrimRight(_)
\* strings.TrimRightFunc(s, unicode.IsSpace): the last rune is dropped
\* while it is white space.  utf8.DecodeLastRuneInString starts the last
\* rune at the nearest byte before the last one, at most three back, that
\* is no continuation byte, else at the farthest of them; a rune that does
\* not end with the last byte counts as U+FFFD of width 1.
TrimRight(str) ==
    LET Nearest(ps, lim) == IF ps = {} THEN lim ELSE SetMax(ps)
        Width(d, n) == IF d.w = n /\ UnicodeIsSpace(d.cp) THEN n ELSE 0
        Last(p) == Width(DecodeRune(str, p), Len(str) - p + 1)
        Drop(n) == IF n = 0 THEN str ELSE TrimRight(To(str, Len(str) - n))
    IN  IF str = << >> THEN str
        ELSE IF ~IsHi(str[Len(str)])
        THEN Drop(IF str[Len(str)] \in AsciiSpace THEN 1 ELSE 0)
        ELSE Drop(Last(Nearest({p \in 1..(Len(str) - 1) :
                                   /\ p >= Len(str) - 3
                                   /\ ByteVal(str[p]) \notin 128..191},
                               IF Len(str) > 4 THEN Len(str) - 3 ELSE 1)))

\* strings.TrimSpace.
TrimSpace(str) == TrimRight(TrimLeft(str))

RECURSIVE Split(_, _)
\* strings.Split on a one-character separator.
Split(str, sep) ==
    IF Index(str, sep) = -1 THEN << str >>
    ELSE << To(str, Index(str, sep)) >> \o Split(From(str, Index(str, sep) + 1), sep)

RECURSIVE Join(_, _)
\* strings.Join.
Join(parts, sep) ==
    IF parts = << >> THEN << >>
    ELSE IF Len(parts) = 1 THEN parts[1]
    ELSE parts[1] \o sep \o Join(Tail(parts), sep)

Ellipsis == << ".", ".", "." >>
Gt == << ">" >>
Lt == << "<" >>
Quotes == {"\"", "'"}
StyleOpen == << "<", "s", "t", "y", "l", "e" >>
StyleClose == << "<", "/", "s", "t", "y", "l", "e", ">" >>
EscStyleOpen == << "\\", "u", "0", "0", "3", "c", "s", "t", "y", "l", "e" >>
EscGt == << "\\", "u", "0", "0", "3", "e" >>
EscStyleClose == << "\\", "u", "0", "0", "3", "c", "/", "s", "t", "y", "l", "e", "\\", "0", "0", "3", "e" >>
StyleAttr == << " ", "s", "t", "y", "l", "e", "=" >>
CommentOpen == << "<", "!", "-", "-" >>
CommentClose == << "-", "-", ">" >>
PreOpen == << "<", "p", "r", "e", ">" >>
PreClose == << "<", "/", "p", "r", "e", ">" >>

CssAttributes ==
    << << " ", "c", "l", "a", "s", "s", "=" >>,
       << " ", "i", "d", "=" >>,
       << " ", "b", "g", "c", "o", "l", "o", "r", "=" >>,
       << " ", "w", "i", "d", "t", "h", "=" >>,
       << " ", "h", "e", "i", "g", "h", "t", "=" >>,
       << " ", "a", "l", "i", "g", "n", "=" >>,
       << " ", "v", "a", "l", "i", "g", "n", "=" >>,
       << " ", "b", "o", "r", "d", "e", "r", "=" >>,
       << " ", "c", "e", "l", "l", "p", "a", "d", "d", "i", "n", "g", "=" >>,
       << " ", "c", "e", "l", "l", "s", "p", "a", "c", "i", "n", "g", "=" >>,
       << " ", "c", "o", "l", "o", "r", "=" >>,
       << " ", "f", "a", "c", "e", "=" >>,
       << " ", "s", "i", "z", "e", "=" >>,
       << " ", "c", "h", "a", "r", "s", "e", "t", "=" >> >>

OrphanedPatterns ==
    << << "=", "\"", "u", "t", "f", "-", "8", "\"" >>,
       << "=", "\"", "U", "T", "F", "-", "8", "\"" >>,
       << "=", "\"", "t", "e", "x", "t", "/", "h", "t", "m", "l", "\"" >>,
       << "=", "\"", "t", "e", "x", "t", "/", "c", "s", "s", "\"" >>,
       << "=", "\"", "a", "p", "p", "l", "i", "c", "a", "t", "i", "o", "n", "/" >> >>

RECURSIVE RemoveStyleBlocks(_)
\* removeCSS, first loop: <style ...> ... </style> blocks.  The offsets are
\* found in the lower-cased copy and applied to result itself; the two
\* differ in length when a rune's lower case has another width, and a
\* slice of result beyond its end panics.
RemoveStyleBlocks(str) ==
    LET Cut(styleStart, styleEnd) ==
            IF styleEnd > Len(str) THEN Panicked
            ELSE RemoveStyleBlocks(To(str, styleStart) \o From(str, styleEnd))
        Closing(styleStart, tagEnd, endAt, escAt) ==
            IF endAt # -1 THEN Cut(styleStart, endAt + tagEnd + 8)
            ELSE IF escAt # -1 THEN Cut(styleStart, escAt + tagEnd + 18)
            ELSE Ok(To(str, styleStart) \o From(str, tagEnd))
        TagEnd(low, styleStart, tagEnd) ==
            IF tagEnd > Len(str) THEN Panicked
            ELSE Closing(styleStart, tagEnd,
                         Index(ToLower(From(str, tagEnd)), StyleClose),
                         Index(low, EscStyleClose))
        Opening(low, styleStart, close, escAt) ==
            IF close # -1 THEN TagEnd(low, styleStart, close + styleStart + 1)
            ELSE IF escAt # -1 THEN TagEnd(low, styleStart, escAt + styleStart + 1)
            ELSE Ok(str)
        Start(low, styleStart) ==
            IF styleStart = -1 THEN Ok(str)
            ELSE IF styleStart > Len(str) THEN Panicked
            ELSE Opening(low, styleStart, Index(From(str, styleStart), Gt),
                         Index(low, EscGt))
        Located(low, found) ==
            Start(low, IF found # -1 THEN found ELSE Index(low, EscStyleOpen))
        Lowered(low) == Located(low, Index(low, StyleOpen))
    IN  Lowered(ToLower(str))

RECURSIVE RemoveStyleAttrs(_)
\* removeCSS, second loop: inline style="..." attributes.  When the quote
\* is never closed and no '>' follows, result is cut at the attribute and
\* the statements after the if still slice it at quoteEnd, eight bytes
\* beyond its end.
RemoveStyleAttrs(str) ==
    LET Unclosed(styleAttrStart, lineEnd) ==
            IF lineEnd # -1
            THEN Ok(To(str, styleAttrStart) \o From(str, styleAttrStart + lineEnd))
            ELSE Panicked
        Quoted(styleAttrStart, quoteStart, closing) ==
            IF closing = -1
            THEN Unclosed(styleAttrStart, Index(From(str, styleAttrStart), Gt))
            ELSE RemoveStyleAttrs(To(str, styleAttrStart)
                                      \o From(str, closing + quoteStart + 1 + 1))
        Attr(styleAttrStart, quoteStart) ==
            IF styleAttrStart = -1 THEN Ok(str)
            ELSE IF quoteStart >= Len(str) THEN Ok(str)
            ELSE IF str[quoteStart + 1] \notin Quotes
            THEN RemoveStyleAttrs(To(str, styleAttrStart)
                                      \o From(str, styleAttrStart + 1))
            ELSE Quoted(styleAttrStart, quoteStart,
                        Index(From(str, quoteStart + 1), << str[quoteStart + 1] >>))
        Found(styleAttrStart) == Attr(styleAttrStart, styleAttrStart + 7)
    IN  IF Len(str) = 0 THEN Ok(str)
        ELSE Found(Index(ToLower(str), StyleAttr))

RECURSIVE RemoveAttr(_, _)
\* removeCSS, third loop, for one attribute of cssAttributes.
RemoveAttr(str, attr) ==
    LET Unclosed(attrStart, tagEnd) ==
            IF tagEnd = -1 THEN To(str, attrStart)
            ELSE To(str, attrStart) \o From(str, attrStart + tagEnd)
        Quoted(attrStart, quoteStart, closing) ==
            IF closing = -1
            THEN Unclosed(attrStart, Index(From(str, attrStart), Gt))
            ELSE RemoveAttr(To(str, attrStart)
                                \o From(str, closing + quoteStart + 1 + 1), attr)
        Attr(attrStart, quoteStart) ==
            IF attrStart = -1 THEN str
            ELSE IF quoteStart >= Len(str) THEN str
            ELSE IF str[quoteStart + 1] \notin Quotes
            THEN RemoveAttr(To(str, attrStart) \o From(str, attrStart + 1), attr)
            ELSE Quoted(attrStart, quoteStart,
                        Index(From(str, quoteStart + 1), << str[quoteStart + 1] >>))
        Found(attrStart) == Attr(attrStart, attrStart + Len(attr))
    IN  IF Len(str) = 0 THEN str
        ELSE Found(Index(ToLower(str), attr))

RECURSIVE RemoveAttrs(_, _)
RemoveAttrs(str, i) ==
    IF Len(str) = 0 \/ i > Len(CssAttributes) THEN str
    ELSE RemoveAttrs(RemoveAttr(str, CssAttributes[i]), i + 1)

RECURSIVE RemoveComments(_)
\* removeCSS, fourth loop: HTML comments.
RemoveComments(str) ==
    LET commentStart == Index(str, CommentOpen)
        commentEnd == Index(From(str, commentStart), CommentClose)
    IN  IF Len(str) = 0 \/ commentStart = -1 THEN str
        ELSE IF commentEnd = -1 THEN To(str, commentStart)
        ELSE RemoveComments(To(str, commentStart)
                                \o From(str, commentEnd + commentStart + 3))

RECURSIVE RemoveOrphaned(_, _)
RemoveOrphaned(str, i) ==
    IF Len(str) = 0 \/ i > Len(OrphanedPatterns) THEN str
    ELSE RemoveOrphaned(ReplaceAll(str, OrphanedPatterns[i], << >>), i + 1)

\* removeCSS: the input itself when RemoveCSS is off, else the five passes.
removeCSS(htmlContent) ==
    LET blocks == RemoveStyleBlocks(htmlContent)
        styles == RemoveStyleAttrs(blocks.out)
    IN  IF ~removeCSSOn THEN Ok(htmlContent)
        ELSE IF ~blocks.ok THEN Panicked
        ELSE IF ~styles.ok THEN Panicked
        ELSE Ok(RemoveOrphaned(RemoveComments(RemoveAttrs(styles.out, 1)), 1))

\* s[:max] + "..." when s is longer than max.
Truncate(str, max) == IF Len(str) > max THEN To(str, max) \o Ellipsis ELSE str

EscapeChar(c) ==
    CASE c = "&" -> << "&", "a", "m", "p", ";" >>
    [] c = "'" -> << "&", "#", "3", "9", ";" >>
    [] c = "<" -> << "&", "l", "t", ";" >>
    [] c = ">" -> << "&", "g", "t", ";" >>
    [] c = "\"" -> << "&", "#", "3", "4", ";" >>
    [] OTHER -> << c >>

RECURSIVE EscapeString(_)
\* html.EscapeString.
EscapeString(str) ==
    IF str = << >> THEN << >> ELSE EscapeChar(Head(str)) \o EscapeString(Tail(str))

IsHTML(str) ==
    LET Tagged(low) ==
            \/ Contains(low, << "<", "h", "t", "m", "l" >>)
            \/ Contains(low, << "<", "b", "o", "d", "y" >>)
            \/ Contains(low, << "<", "d", "i", "v" >>)
            \/ Contains(low, << "<", "p", ">" >>)
    IN  Tagged(ToLower(str))

\* processContent: HTML goes through removeCSS and is cut at
\* MaxRSSHTMLLength; text is escaped, wrapped in <pre> and its inner part
\* cut at MaxRSSTextLength.
processContent(str) ==
    IF Len(str) = 0 THEN Ok(<< >>)
    ELSE IF IsHTML(str)
         THEN LET processedHTML == removeCSS(str)
              IN  IF processedHTML.ok
                  THEN Ok(Truncate(processedHTML.out, MaxRSSHTMLLength))
                  ELSE Panicked
    ELSE LET escapedContent == EscapeString(str)
         IN  IF Len(PreOpen \o escapedContent \o PreClose) > MaxRSSTextLength + 11
             THEN Ok(PreOpen \o Truncate(escapedContent, MaxRSSTextLength) \o PreClose)
             ELSE Ok(PreOpen \o escapedContent \o PreClose)

\* processHTMLContent: removeCSS, then cut at MaxHTMLContentLength.
processHTMLContent(str) ==
    IF Len(str) = 0 THEN Ok(<< >>)
    ELSE LET processedHTML == removeCSS(str)
         IN  IF processedHTML.ok
             THEN Ok(Truncate(processedHTML.out, MaxHTMLContentLength))
             ELSE Panicked

\* processTextContent: cut at MaxTextContentLength.
processTextContent(str) ==
    IF Len(str) = 0 THEN Ok(<< >>) ELSE Ok(Truncate(str, MaxTextContentLength))

RECURSIVE StripTags(_)
\* stripHTML, the loop: the first '<' up to the next '>' is removed while
\* both characters occur.
StripTags(str) ==
    LET start == Index(str, Lt)
        end == Index(From(str, start), Gt)
    IN  IF Len(str) = 0 \/ ~(Contains(str, Lt) /\ Contains(str, Gt)) THEN str
        ELSE IF end = -1 THEN str
        ELSE StripTags(To(str, start) \o From(str, start + end + 1))

\* stripHTML.
stripHTML(str) ==
    Ok(TrimSpace(StripTags(
        ReplaceAll(ReplaceAll(ReplaceAll(
            ReplaceAll(ReplaceAll(str, PreOpen, << >>), PreClose, << >>),
            << "<", "b", "r", ">" >>, << "\n" >>),
            << "<", "b", "r", "/", ">" >>, << "\n" >>),
            << "<", "b", "r", " ", "/", ">" >>, << "\n" >>))))

RECURSIVE SummaryLines(_, _)
\* The first five non-empty trimmed lines.
SummaryLines(lines, got) ==
    LET Line(trimmed) ==
            IF trimmed # << >> THEN SummaryLines(Tail(lines), Append(got, trimmed))
            ELSE SummaryLines(Tail(lines), got)
    IN  IF lines = << >> \/ Len(got) >= 5 THEN got
        ELSE Line(TrimSpace(Head(lines)))

\* createSummaryFromText.
createSummaryFromText(text) ==
    LET summaryLines == SummaryLines(Split(text, << "\n" >>), << >>)
        summary == Join(summaryLines, << " " >>)
    IN  IF text = << >> THEN Ok(<< >>)
        ELSE IF Len(summaryLines) >= 5 \/ Len(summary) > MaxSummaryLength
             THEN Ok((IF Len(summary) > MaxSummaryLength
                      THEN To(summary, MaxSummaryLength) ELSE summary) \o Ellipsis)
        ELSE Ok(summary)

\* The pieces the inputs are built from.  The last three are U+023A (two
\* bytes, its lower case U+2C65 takes three), U+212A (three bytes, its
\* lower case is the one byte "k") and U+3000 (white space of three bytes).
Fragments ==
    { << "<", "p" >>,
      << " ", "s", "t", "y", "l", "e", "=" >>,
      << "\"" >>,
      << "x" >>,
      << ">" >>,
      << "<", "s", "t", "y", "l", "e" >>,
      << "<", "/", "s", "t", "y", "l", "e", ">" >>,
      << "<", "!", "-", "-" >>,
      << "-", "-", ">" >>,
      << " ", "c", "l", "a", "s", "s", "=" >>,
      << "\n" >>,
      << "<", "s", "t", "y", "l", "e", ">" >>,
      << "xC8", "xBA" >>,
      << "xE2", "x84", "xAA" >>,
      << "xE3", "x80", "x80" >> }

RECURSIVE Concats(_)
\* Every concatenation of at most n fragments.
Concats(n) ==
    IF n = 0 THEN {<< >>}
    ELSE Concats(n - 1) \cup {c \o g : c \in Concats(n - 1), g \in Fragments}

Contents == Concats(MaxFrags)

InitNormalize ==
    /\ InitProcessor
    /\ removeCSSOn \in BOOLEAN
    /\ content \in Contents
    /\ result = NoResult
    /\ InitItemVars
    /\ InitCfgVars
    /\ InitPathVars
    /\ lastErr = FALSE

\* What a call of fn that ended as res leaves in result.
CallResult(fn, res) == [fn |-> fn, ok |-> res.ok, out |-> res.out]

\* Everything a normalizer call leaves alone.
callFrame == << ctlVars, faults, selected, ledger, passVars, docVars, hist,
               signalled, serveVars, removeCSSOn, content, argVars >>

\* One call of removeCSS on the content.
ApplyRemoveCSS ==
    /\ result = NoResult
    /\ result' = CallResult("removeCSS", removeCSS(content))
    /\ UNCHANGED callFrame

\* One call of processContent on the content.
ApplyProcessContent ==
    /\ result = NoResult
    /\ result' = CallResult("processContent", processContent(content))
    /\ UNCHANGED callFrame

\* One call of processHTMLContent on the content.
ApplyProcessHTMLContent ==
    /\ result = NoResult
    /\ result' = CallResult("processHTMLContent", processHTMLContent(content))
    /\ UNCHANGED callFrame

\* One call of processTextContent on the content.
ApplyProcessTextContent ==
    /\ result = NoResult
    /\ result' = CallResult("processTextContent", processTextContent(content))
    /\ UNCHANGED callFrame

\* One call of stripHTML on the content.
ApplyStripHTML ==
    /\ result = NoResult
    /\ result' = CallResult("stripHTML", stripHTML(content))
    /\ UNCHANGED callFrame

\* One call of createSummaryFromText on the content.
ApplyCreateSummaryFromText ==
    /\ result = NoResult
    /\ result' = CallResult("createSummaryFromText", createSummaryFromText(content))
    /\ UNCHANGED callFrame

NextNormalize ==
    \/ ApplyRemoveCSS
    \/ ApplyProcessContent
    \/ ApplyProcessHTMLContent
    \/ ApplyProcessTextContent
    \/ ApplyStripHTML
    \/ ApplyCreateSummaryFromText

SpecNormalize == InitNormalize /\ [][NextNormalize]_vars

\* ------------------------------------------------------------ feed items
\* The content of one item as the two generators build it from a message,
\* with the stub AI hooks, whose summary of a body is the body.
MaxBodyFrags == 2

\* GenerateFeed, loop body: the description is processContent of the HTML
\* body when there is one, else of the text body.
RSSDescription(htmlBody, txt) ==
    processContent(IF htmlBody # << >> THEN htmlBody ELSE txt)

\* The element of a one-element set: the stages of an item are bound to
\* their values one after the other, as the assignments of the loop body do.
The(S) == CHOOSE x \in S : TRUE

PanickedItem == [ok |-> FALSE, built |-> TRUE, html |-> << >>, text |-> << >>,
                 summary |-> << >>]

\* GenerateJSONFeed, loop body: "If we only have one type, derive the other".
DeriveHTML(html0, text0) ==
    IF html0 = << >> /\ text0 # << >>
    THEN PreOpen \o EscapeString(text0) \o PreClose
    ELSE html0

DeriveText(html0, text0) ==
    IF html0 = << >> /\ text0 # << >> THEN text0
    ELSE IF text0 = << >> /\ html0 # << >> THEN stripHTML(html0).out
    ELSE text0

\* GenerateJSONFeed, loop body: the item, with its summary when there is
\* text.
ItemOf(contentHTML, contentText) ==
    [ok |-> TRUE, built |-> TRUE, html |-> contentHTML, text |-> contentText,
     summary |-> IF contentText # << >>
                 THEN createSummaryFromText(contentText).out
                 ELSE << >>]

\* GenerateJSONFeed, loop body.
JSONItemOf(htmlBody, txt) ==
    The({ IF ~processed.ok THEN PanickedItem
          ELSE The({ ItemOf(contentHTML, contentText) :
                       contentHTML \in {DeriveHTML(processed.out, text0)},
                       contentText \in {DeriveText(processed.out, text0)} }) :
            processed \in {IF htmlBody # << >> THEN processHTMLContent(htmlBody)
                           ELSE Ok(<< >>)},
            text0 \in {IF txt # << >> THEN processTextContent(txt).out
                       ELSE << >>} })

HTMLFragments ==
    { << "<", "p", ">" >>,
      << "x" >>,
      << "<", "!", "-", "-" >>,
      << "-", "-", ">" >>,
      << "<", "s", "t", "y", "l", "e", ">" >>,
      << "=", "4", "1" >>,
      << " ", "s", "t", "y", "l", "e", "=", "\"" >>,
      << "xE2", "x84", "xAA" >>,
      << "xE3", "x80", "x80" >> }

TextFragments ==
    { << "x" >>,
      << "\n" >>,
      << "=", "4", "1" >>,
      << "<" >>,
      << "xE3", "x80", "x80" >> }

RECURSIVE ConcatsOf(_, _)
\* Every concatenation of at most n of the fragments.
ConcatsOf(frags, n) ==
    IF n = 0 THEN {<< >>}
    ELSE ConcatsOf(frags, n - 1)
             \cup {c \o g : c \in ConcatsOf(frags, n - 1), g \in frags}

HTMLBodies == ConcatsOf(HTMLFragments, MaxBodyFrags)

TextBodies == ConcatsOf(TextFragments, MaxBodyFrags)

InitItem ==
    /\ InitProcessor
    /\ removeCSSOn \in BOOLEAN
    /\ content \in HTMLBodies
    /\ textBody \in TextBodies
    /\ result = NoResult
    /\ item = NoItem
    /\ InitCfgVars
    /\ InitPathVars
    /\ lastErr = FALSE

\* GenerateFeed renders the message into an RSS item.
BuildRSSItem ==
    /\ result = NoResult
    /\ result' = CallResult("GenerateFeed", RSSDescription(content, textBody))
    /\ UNCHANGED callFrame

\* GenerateJSONFeed renders the message into a JSON item.
BuildJSONItem ==
    /\ ~item.built
    /\ item' = JSONItemOf(content, textBody)
    /\ UNCHANGED << ctlVars, faults, selected, ledger, passVars, docVars, hist,
                    signalled, serveVars, normVars, textBody, cfgVars, pathVars,
                    lastErr >>

NextItem ==
    \/ BuildRSSItem
    \/ BuildJSONItem

SpecItem == InitItem /\ [][NextItem]_vars

\* ------------------------------------------------------------ the worker limit
\* Start-up: config.Load (which validates), processor.New, SetMaxWorkers.
ConfiguredBelow == 40
ConfiguredAbove == 60
DefaultMaxWorkers == 5
MaxWorkersCap == 20

\* What a configuration file may hold as processing.max_workers.
Configured == (0 - ConfiguredBelow)..ConfiguredAbove

\* validate, on Processing.MaxWorkers: 0 becomes the default, and what is
\* then above the cap becomes the cap.
validate(n) ==
    LET defaulted == IF n = 0 THEN DefaultMaxWorkers ELSE n
    IN  IF defaulted > MaxWorkersCap THEN MaxWorkersCap ELSE defaulted

\* A SetMaxWorkers that stores its argument as it is.
SetMaxWorkersAsGiven(workers) == workers

\* SetMaxWorkers: the value stored in Processor.maxWorkers.
SetMaxWorkersTo(workers) == IF workers <= 0 THEN 1 ELSE workers

InitConfig ==
    /\ InitRun
    /\ maxWorkers = 0
    /\ removeCSSOn = FALSE
    /\ content = << >>
    /\ result = NoResult
    /\ InitItemVars
    /\ InitPathVars
    /\ lastErr = FALSE
    /\ configured \in Configured
    /\ cfgWorkers = 0
    /\ cfgPc = "none"

\* Everything start-up leaves alone besides the worker limit.
cfgFrame == << sweepPc, sweeps, retVal, resets, faults, selected, ledger,
               passVars, docVars, hist, signalled, serveVars, normVars,
               itemVars, pathVars, lastErr, configured >>

\* config.Load: the file is unmarshalled and validated.
Load ==
    /\ cfgPc = "none"
    /\ cfgWorkers' = validate(configured)
    /\ cfgPc' = "loaded"
    /\ UNCHANGED << cfgFrame, maxWorkers >>

\* processor.New.
New ==
    /\ cfgPc = "loaded"
    /\ maxWorkers' = DefaultMaxWorkers
    /\ cfgPc' = "new"
    /\ UNCHANGED << cfgFrame, cfgWorkers >>

\* runProcess: proc.SetMaxWorkers(cfg.Processing.MaxWorkers).
SetMaxWorkers ==
    /\ cfgPc = "new"
    /\ maxWorkers' = SetMaxWorkersTo(cfgWorkers)
    /\ cfgPc' = "set"
    /\ UNCHANGED << cfgFrame, cfgWorkers >>

NextConfig ==
    \/ Load
    \/ New
    \/ SetMaxWorkers

SpecConfig == InitConfig /\ [][NextConfig]_vars

\* ------------------------------------------------------------ feed paths
\* handleFeed on a request path, over a file system that holds two feed
\* documents and two files that are not in the feeds directory.
MaxNameFrags == 4

Slash == << "/" >>
DotDot == << ".", "." >>
FeedsPrefix == << "/", "f", "e", "e", "d", "s", "/" >>
XmlSuffix == << ".", "x", "m", "l" >>
JsonSuffix == << ".", "j", "s", "o", "n" >>

\* ServerConfig.FeedsDir.
FeedsDir == << ".", "/", "f" >>

\* The regular files that exist, by their path from the working directory.
Files ==
    { << "f", "/", "a", ".", "x", "m", "l" >>,
      << "f", "/", "a", ".", "j", "s", "o", "n" >>,
      << "f", "s", "/", "a", ".", "x", "m", "l" >>,
      << "f", "a", ".", "x", "m", "l" >> }

HasPrefix(str, pat) == HasPrefixAt(str, pat, 0)

HasSuffix(str, pat) ==
    Len(pat) <= Len(str) /\ HasPrefixAt(str, pat, Len(str) - Len(pat))

\* strings.TrimPrefix.
TrimPrefix(str, pat) == IF HasPrefix(str, pat) THEN From(str, Len(pat)) ELSE str

\* filepath.Clean, one path element: empty and "." elements are dropped,
\* ".." removes the element before it, is dropped at the root, and is kept
\* at the start of a relative path.
CleanStep(out, seg, rooted) ==
    IF seg = << >> \/ seg = << "." >> THEN out
    ELSE IF seg # DotDot THEN Append(out, seg)
    ELSE IF out # << >> /\ out[Len(out)] # DotDot THEN To(out, Len(out) - 1)
    ELSE IF rooted THEN out
    ELSE Append(out, seg)

RECURSIVE CleanSegs(_, _, _)
\* The elements that remain of the first n elements.
CleanSegs(segs, n, rooted) ==
    IF n = 0 THEN << >>
    ELSE The({ CleanStep(out, segs[n], rooted) :
                 out \in {CleanSegs(segs, n - 1, rooted)} })

\* filepath.Clean.
Clean(path) ==
    The({ IF HasPrefix(path, Slash) THEN Slash \o Join(out, Slash)
          ELSE IF out = << >> THEN << "." >>
          ELSE Join(out, Slash) :
            out \in {CleanSegs(Split(path, Slash), Len(Split(path, Slash)),
                               HasPrefix(path, Slash))} })

\* filepath.Join of two non-empty elements.
JoinPath(dir, name) == Clean(dir \o Slash \o name)

\* isValidFeedPath.
isValidFeedPath(feedPath) ==
    /\ HasPrefix(Clean(feedPath), Clean(FeedsDir))
    /\ (HasSuffix(Clean(feedPath), XmlSuffix) \/ HasSuffix(Clean(feedPath), JsonSuffix))
    /\ ~Contains(feedPath, DotDot)

\* handleFeed: the status and, for 200, the file whose content is sent.
\* With failing set, os.ReadFile ends in an error other than a missing
\* file, or the response cannot be written: the answer is a 500.
handleFeed(path, failing) ==
    LET trimmed == TrimPrefix(path, FeedsPrefix)
        feedName == IF HasSuffix(trimmed, JsonSuffix) \/ HasSuffix(trimmed, XmlSuffix)
                    THEN trimmed
                    ELSE trimmed \o XmlSuffix
    IN  IF trimmed = << >> THEN [status |-> 400, file |-> << >>]
        ELSE The({ IF ~isValidFeedPath(feedPath) THEN [status |-> 404, file |-> << >>]
                   ELSE IF failing THEN [status |-> 500, file |-> << >>]
                   ELSE IF feedPath \notin Files THEN [status |-> 404, file |-> << >>]
                   ELSE [status |-> 200, file |-> feedPath] :
                     feedPath \in {JoinPath(FeedsDir, feedName)} })

\* The file is in the feeds directory: below it, element by element.
Inside(file) ==
    LET dir == Split(Clean(FeedsDir), Slash)
        segs == Split(Clean(file), Slash)
    IN  /\ Len(segs) > Len(dir)
        /\ \A i \in 1..Len(dir) : segs[i] = dir[i]

NameFragments ==
    { << ".", ".", "/" >>,
      << "f", "s", "/" >>,
      << "f" >>,
      << "a" >>,
      << ".", "x", "m", "l" >>,
      << ".", "j", "s", "o", "n" >>,
      << ".", "." >> }

\* r.URL.Path of the requests routed to handleFeed.
UrlPaths == {FeedsPrefix \o n : n \in ConcatsOf(NameFragments, MaxNameFrags)}

InitPath ==
    /\ InitProcessor
    /\ removeCSSOn = FALSE
    /\ content = << >>
    /\ result = NoResult
    /\ InitItemVars
    /\ InitCfgVars
    /\ urlPath \in UrlPaths
    /\ reply = NoReply
    /\ lastErr = FALSE

\* handleFeed answers the request.
HandleFeedPath ==
    /\ reply = NoReply
    /\ \/ NoFault /\ reply' = handleFeed(urlPath, FALSE)
       \/ /\ Fault
          /\ handleFeed(urlPath, TRUE).status = 500
          /\ reply' = handleFeed(urlPath, TRUE)
    /\ UNCHANGED << ctlVars, selected, ledger, passVars, docVars, hist,
                    signalled, serveVars, normVars, itemVars, cfgVars, urlPath,
                    lastErr >>

NextPath == HandleFeedPath

SpecPath == InitPath /\ [][NextPath]_vars

\* The uids of a document's items, in document order.
ItemIds(items) == [i \in 1..Len(items) |-> items[i].uid]

\* The messages of the pass over f whose content a generator has
\* normalized: both generators normalize every message before they touch
\* the file system.
Normalized(f) ==
    IF \/ rssSt[f] \in {"ok", "err"}
       \/ jsonSt[f] \in {"ok", "err"}
       \/ \E k \in Kinds : writing[f][k] # NoDoc
    THEN UIDs(newMessages[f]) ELSE {}

\* C11: whatever handleFeed sends with status 200 is a complete document:
\* a reader never gets the empty or partly written file of a write in
\* progress.
ReaderSeesCompleteDocument ==
    served.status = 200 => served.body.state = "complete"

\* C12: once the shutdown signal has arrived, no message worker of the
\* sweep in flight performs a body fetch or a ledger write.
CancelStopsWorkers ==
    [][signalled =>
          \A f \in Folders : \A i \in 1..Len(wpc[f]) :
              wpc[f][i] \in {"fetch", "mark"} => wpc'[f][i] = wpc[f][i]]_vars

\* C13: ClearFolderHistory(f) and ResetFolder(f) can be called on a folder
\* with or without records; after the call no uid is processed in f, and
\* the records of every other folder are the ones from before the call.
ClearLeavesOtherFolders ==
    /\ [](\A f \in Folders : ENABLED CallClearFolderHistory(f))
    /\ [][\A f \in Folders :
             (CallClearFolderHistory(f) \/ ResetFolder(f)) =>
                 /\ \A uid \in 1..MaxMailbox : ~IsMessageProcessed(ledger', f, uid)
                 /\ \A g \in Folders \ {f} : ledger'[g] = ledger[g]]_vars

\* C13 witness: ResetFolder emptied a folder that had records while the
\* other folder keeps its records.
C13Witness ==
    \E f \in Folders, g \in Folders :
        /\ f # g
        /\ hist.resetOf = f
        /\ ledger[f] = {}
        /\ ledger[g] # {}

\* C14: in the pass over f that follows ResetFolder(f) the watermark is the
\* zero time, the search (run on the folder's own mailbox) returns every
\* message of the mailbox, and, when no call of the sweep fails, every
\* candidate whose worker has finished is a new message of the pass.
\* ResetFolder runs in a process of its own; when it runs while workers of
\* a pass over f are between their check and their ledger write, those
\* workers write records after the reset.
ResetReprocessesAll ==
    \A f \in Folders :
        (hist.resetOf = f /\ hist.resetSweep = sweeps - 1) =>
            /\ since[f] = ZeroTime
            /\ (fpc[f] \in {"fetch", "workers", "gen", "done"} /\ ~hist.raced)
                   => seqs[f] = 1..Len(Upstream[f])
            /\ hist.faultSweep < sweeps =>
                   \A i \in 1..Len(wpc[f]) :
                       wpc[f][i] = "done" =>
                           messages[f][i].uid \in UIDs(NewSoFar(f))

\* C15: GetLastProcessedDate(f) is the zero time when f has no record, and
\* else names the latest instant among the timestamps of f's records.
WatermarkIsMaximum ==
    \A f \in Folders :
        IF ledger[f] = {}
        THEN GetLastProcessedDate(ledger, f) = [err |-> FALSE, date |-> ZeroTime]
        ELSE /\ ~GetLastProcessedDate(ledger, f).err
             /\ Instant(GetLastProcessedDate(ledger, f).date)
                    = SetMax({Instant(r.date) : r \in ledger[f]})

\* C16: the items of every written document are in descending order of
\* timestamp, ties in descending order of uid.
ItemsNewestFirst ==
    \A f \in Folders : \A d \in {xmlDoc[f], jsonDoc[f]} :
        d.state = "complete" =>
            \A i \in 1..(Len(d.items) - 1) :
                \/ Instant(d.items[i].date) > Instant(d.items[i + 1].date)
                \/ /\ Instant(d.items[i].date) = Instant(d.items[i + 1].date)
                   /\ d.items[i].uid > d.items[i + 1].uid

\* C17: whenever ProcessFolders has returned, the two
\* documents of every feed hold the same uids in the same order.
XmlJsonSameItems ==
    Returned =>
        \A f \in Folders : ItemIds(xmlDoc[f].items) = ItemIds(jsonDoc[f].items)

\* C18: every ledger record written by the sweep in flight belongs to a
\* message whose content has been normalized.
RecordOnlyAfterNormalized ==
    sweepPc = "running" =>
        \A f \in Folders : \A r \in ledger[f] \ hist.prevLedger[f] :
            r.uid \in Normalized(f)

\* C19: the exit status that follows the return of ProcessFolders is
\* non-zero when every folder's pass failed, and zero when the pass of at
\* least one folder succeeded.
RunOnceExitStatus ==
    Returned =>
        /\ (\A f \in Folders : fpc[f] = "failed") => ExitCode(retVal) # 0
        /\ (\E f \in Folders : fpc[f] = "done") => ExitCode(retVal) = 0

\* C20: every call of removeCSS, processContent, processHTMLContent,
\* processTextContent, stripHTML and createSummaryFromText returns a value,
\* with CSS removal on or off.
NormalizerReturns == result.ok

\* C21: a returned output of processHTMLContent is no longer than
\* MaxHTMLContentLength, one of processTextContent no longer than
\* MaxTextContentLength, and one of createSummaryFromText no longer than
\* MaxSummaryLength.
OutputsWithinLimits ==
    /\ (result.fn = "processHTMLContent" /\ result.ok) =>
           Len(result.out) <= MaxHTMLContentLength
    /\ (result.fn = "processTextContent" /\ result.ok) =>
           Len(result.out) <= MaxTextContentLength
    /\ (result.fn = "createSummaryFromText" /\ result.ok) =>
           Len(result.out) <= MaxSummaryLength

\* C22: a JSON item that was built has content_html and content_text both
\* empty only when the message's HTMLBody and TextBody were both empty.
ItemHasContent ==
    (item.built /\ item.ok /\ item.html = << >> /\ item.text = << >>) =>
        (content = << >> /\ textBody = << >>)

\* isHex, for one character.
isHex(c) ==
    c \in {"0", "1", "2", "3", "4", "5", "6", "7", "8", "9",
           "A", "B", "C", "D", "E", "F", "a", "b", "c", "d", "e", "f"}

\* The test of decodeQuotedPrintable for an =XX escape, at any offset.
HasQPEscape(str) ==
    \E i \in 1..(Len(str) - 2) :
        str[i] = "=" /\ isHex(str[i + 1]) /\ isHex(str[i + 2])

\* C23: a body is decoded before it is rendered, so that no =XX escape of
\* the message's bodies is left in the RSS description, in content_html or
\* in content_text (with boundary and header lines, one of the MIME
\* artifacts that must not reach a document).
NoEscapeReachesDocument ==
    (HasQPEscape(content) \/ HasQPEscape(textBody)) =>
        /\ (result.fn = "GenerateFeed" /\ result.ok) => ~HasQPEscape(result.out)
        /\ (item.built /\ item.ok) =>
               (~HasQPEscape(item.html) /\ ~HasQPEscape(item.text))

\* C24: a processor on which SetMaxWorkers was not called has the limit 5;
\* after start-up the limit is between 1 and 20 for every configured value:
\* 1 for a negative value, 5 for 0, 20 for a value above 20, and the
\* configured value otherwise.
WorkerLimitInRange ==
    /\ cfgPc = "new" => maxWorkers = DefaultMaxWorkers
    /\ cfgPc = "set" =>
           /\ maxWorkers >= 1
           /\ maxWorkers <= MaxWorkersCap
           /\ configured < 0 => maxWorkers = 1
           /\ configured = 0 => maxWorkers = DefaultMaxWorkers
           /\ configured > MaxWorkersCap => maxWorkers = MaxWorkersCap
           /\ configured \in 1..MaxWorkersCap => maxWorkers = configured

\* C24 witness: start-up ended for a configured value above the cap.
C24Witness ==
    /\ cfgPc = "set"
    /\ configured > MaxWorkersCap
    /\ maxWorkers = MaxWorkersCap

\* C25: handleFeed sends file content (status 200) only for a file located
\* in the feeds directory.
ServesOnlyFeedsDir == reply.status = 200 => Inside(reply.file)

\* The content opens a <style> tag, at offset Index(ToLower(content),
\* StyleOpen), that is closed by '>' and followed by no </style>.
UnterminatedStyle ==
    LET styleStart == Index(ToLower(content), StyleOpen)
    IN  /\ styleStart # -1
        /\ Contains(From(content, styleStart), Gt)
        /\ ~Contains(ToLower(From(content, styleStart)), StyleClose)

\* C30: with CSS removal enabled, removeCSS of a content whose first
\* <style> block has no closing tag returns what it returns for the content
\* cut at that opening tag: the block is stripped to the end of the document.
UnterminatedStyleStripped ==
    (removeCSSOn /\ result.fn = "removeCSS" /\ result.ok /\ UnterminatedStyle) =>
        result.out = removeCSS(To(content, Index(ToLower(content), StyleOpen))).out

\* The uids the workers of the running pass over f wrote to the ledger: the
\* workers that succeeded.
MarkedThisPass(f) == hist.marked[f]

\* C26: while a generator of the pass over f runs or has run, every message
\* worker of that pass has returned, both channels are closed and drained,
\* and the messages handed to the generators, and the items of a document
\* the pass wrote, include every message a worker of the pass ledgered.
GatherThenAssemble ==
    \A f \in Folders :
        (sweepPc = "running" /\ (fpc[f] = "gen" \/ rssSt[f] # "idle" \/ jsonSt[f] # "idle")) =>
            /\ \A i \in 1..Len(wpc[f]) : wpc[f][i] = "done"
            /\ closed[f]
            /\ resultChan[f] = << >>
            /\ errorChan[f] = 0
            /\ MarkedThisPass(f) \subseteq UIDs(newMessages[f])
            /\ rssSt[f] = "ok" => MarkedThisPass(f) \subseteq UIDs(xmlDoc[f].items)
            /\ jsonSt[f] = "ok" => MarkedThisPass(f) \subseteq UIDs(jsonDoc[f].items)

\* C26 witness: a pass with two workers, both successful, has written its
\* .xml document while the other folder's pass is still at its workers.
C26Witness ==
    \E f \in Folders, g \in Folders :
        /\ sweepPc = "running"
        /\ fpc[f] = "gen"
        /\ rssSt[f] = "ok"
        /\ Len(wpc[f]) = 2
        /\ Cardinality(MarkedThisPass(f)) = 2
        /\ fpc[g] = "workers"
        /\ \E i \in 1..Len(wpc[g]) : wpc[g][i] # "done"

\* processMessagesAsync of the running pass over f has returned.
AsyncReturned(f) ==
    /\ sweepPc = "running"
    /\ closed[f]
    /\ fpc[f] \in {"gen", "done", "failed"}

\* C29: what processMessagesAsync returned holds each uid once, its uids are
\* the candidates that were absent from the ledger when their worker looked
\* and whose ledger write succeeded, and the error it returned is nil: a
\* pass that failed after it failed in the generators.
FanInConserves ==
    \A f \in Folders :
        AsyncReturned(f) =>
            /\ \A i \in 1..Len(newMessages[f]), j \in 1..Len(newMessages[f]) :
                   newMessages[f][i].uid = newMessages[f][j].uid => i = j
            /\ UIDs(newMessages[f]) =
                   UIDs(messages[f]) \cap hist.absent[f] \cap hist.marked[f]
            /\ hist.marked[f] \subseteq hist.absent[f]
            /\ fpc[f] = "failed" => (rssSt[f] = "err" \/ jsonSt[f] = "err")

\* C29 witness: in a second pass, of two candidates one was in the ledger
\* already, because the write for the other had failed, and the other is
\* what the call returned.
C29Witness ==
    \E f \in Folders :
        /\ AsyncReturned(f)
        /\ Len(messages[f]) = 2
        /\ Len(newMessages[f]) = 1
        /\ hist.markFailedPrev[f] # {}
        /\ \E i \in 1..2 : IsMessageProcessed(hist.prevLedger, f, messages[f][i].uid)

\* C27: a ProcessFolders call that has started returns.
SweepTerminates == (sweepPc = "running") ~> (sweepPc = "idle")

\* C27 witness: with the limit at one, both folder passes ran their
\* workers, two of them in one pass, every channel was closed, and the
\* call has returned.
C27Witness ==
    /\ Returned
    /\ maxWorkers = 1
    /\ \A f \in Folders : closed[f] /\ fpc[f] \in Terminal
    /\ \E f \in Folders : Len(wpc[f]) = 2

\* C28: a pass over f that ran with no failed call, on its own mailbox, and
\* returned nil has left no upstream message of f behind: each was in the
\* ledger when the pass began, or the pass returned it as new and wrote it
\* to both documents (whatever its timestamp is against the watermark).
NoMessageLoss ==
    \A f \in Folders :
        (Returned /\ CleanFollowUp /\ fpc[f] = "done") =>
            \A i \in 1..Len(Upstream[f]) :
                \/ Upstream[f][i].uid \in {r.uid : r \in hist.prevLedger[f]}
                \/ /\ Upstream[f][i].uid \in UIDs(newMessages[f])
                   /\ Upstream[f][i].uid \in UIDs(xmlDoc[f].items)
                   /\ Upstream[f][i].uid \in UIDs(jsonDoc[f].items)

====
